---- MODULE Spec2Model ----
(***************************************************************************)
(* A model of the S3 file system adapter and of the retry envelope that    *)
(* wraps it.                                                               *)
(*                                                                         *)
(*   SpecRetry  RetryingUtils::CallWithRetries and DeleteWithRetries, fed  *)
(*              with the same outcome script of the wrapped function.      *)
(*   SpecFile   S3WritableFile, S3RandomAccessFile and the facade          *)
(*              operations that open, read and stat files, over an object  *)
(*              store.                                                     *)
(*   SpecDir    the directory operations (FileExists, GetChildren,         *)
(*              DeleteFile, CreateDir, DeleteDir, RenameFile) over a store *)
(*              that holds a small tree.                                   *)
(*   SpecRead   S3RandomAccessFile::Read on one object.                    *)
(*   SpecParse  ParseS3Path over a family of paths.                        *)
(*   SpecClient, SpecClientFair  GetS3Client and GetTransferManager        *)
(*              called from several threads.                               *)
(*   SpecCopy   MultiPartCopy of one object, request by request.           *)
(*   SpecPoll   DeleteDir and GetChildren through the retry envelope, on   *)
(*              the tree of SpecDir.                                       *)
(*   SpecFrame  RenameFile on a store that holds a sibling of the source.  *)
(***************************************************************************)
EXTENDS Integers, Sequences, FiniteSets, TLC

VARIABLES
    \* ---- retry envelope (retrying_utils.cc, retrying_file_system.h) ----
    adapter,                    \* "generic" (RetryingFileSystem) or "s3" (RetryingS3FileSystem)
    initial_delay_microseconds, \* RetryingFileSystem::initial_delay_microseconds_
    retriable_errors,           \* RetryingFileSystem::retriable_errors_
    env,                        \* the two envelopes: "call" -> CallWithRetries, "delete" -> DeleteWithRetries
    raw_log,                    \* history of the wrapped function's outcomes (ghost)
    \* ---- S3 file system (s3_file_system.cc) ----
    store,                      \* the bucket: key -> object
    wf,                         \* the S3WritableFile handle the caller holds
    fresh,                      \* the next byte value the caller appends (ghost)
    ret,                        \* what the last facade or file operation returned
    reader,                     \* the S3RandomAccessFile handle the caller holds
    \* ---- client provider (s3_file_system.cc:59-149, 349-411) ----
    fs,                         \* S3FileSystem: s3_client_, transfer_manager_, executor_, the locks
    threads                     \* the caller threads inside the getters

vars == <<adapter, initial_delay_microseconds, retriable_errors, env, raw_log,
          store, wf, fresh, ret, reader, fs, threads>>

retry_vars == <<adapter, initial_delay_microseconds, retriable_errors, env, raw_log>>
file_vars == <<store, wf, fresh, ret>>
client_vars == <<reader, fs, threads>>

Min(a, b) == IF a <= b THEN a ELSE b
Max(a, b) == IF a >= b THEN a ELSE b

(***************************************************************************)
(* Status: an error code and a message.  The message of a status returned  *)
(* by the wrapped function is modelled by the number of the invocation     *)
(* that produced it (attempt); the message of the envelope's ABORTED       *)
(* status embeds the last failure (last = its code, attempt = its origin). *)
(* Status::OK() carries no message.                                        *)
(***************************************************************************)
Codes == {"OK", "NOT_FOUND", "INVALID_ARGUMENT", "OUT_OF_RANGE", "ABORTED",
          "UNAVAILABLE", "DEADLINE_EXCEEDED", "UNKNOWN", "FAILED_PRECONDITION",
          "INTERNAL"}

StatusOK == [code |-> "OK", attempt |-> 0, last |-> "-"]
NoStatus == [code |-> "-", attempt |-> 0, last |-> "-"]
MakeStatus(code, attempt) ==
    IF code = "OK" THEN StatusOK ELSE [code |-> code, attempt |-> attempt, last |-> "-"]

\* retrying_utils.cc:27
kMaxRetries == 10
\* retrying_utils.cc:29
kMaximumBackoffMicroseconds == 32000000

\* retrying_file_system.h:37, the default retriable set of RetryingFileSystem
DefaultRetriableErrors == {"UNAVAILABLE", "DEADLINE_EXCEEDED", "UNKNOWN"}
\* retrying_file_system.h:38
DefaultDelayMicroseconds == 1000000

\* s3_file_system.h:104-106, the retriable set RetryingS3FileSystem passes
S3RetriableErrors_Default == DefaultRetriableErrors
S3RetriableErrors == {"UNAVAILABLE", "DEADLINE_EXCEEDED", "UNKNOWN",
                      "FAILED_PRECONDITION", "INTERNAL"}
\* s3_file_system.h:101
S3InitDelayMicroseconds == 100000

\* Initial delays a RetryingFileSystem is constructed with: 0 (no sleep), the
\* default, and values whose shifted base stays below, meets and passes the cap.
DelaySamples == {0, 1, 62500, DefaultDelayMicroseconds, 4000000}

\* Values random::New64() returns, before the % 1000000 of the code.
RandomSamples == {0, 999999, 1000000, 1999999, 2147483647}

\* retrying_utils.cc:31-33
IsRetriable_Negated(errors, code) == code \notin errors
IsRetriable(errors, code) == code \in errors

\* x << n
RECURSIVE ShiftLeft(_, _)
ShiftLeft(x, n) == IF n = 0 THEN x ELSE ShiftLeft(x + x, n - 1)

\* retrying_utils.cc:64-70: delay_micros of one retry; r is random::New64()
DelayMicros_JitterShifted(initial, retries, r) ==
    IF initial > 0
    THEN Min(ShiftLeft(initial + (r % 1000000), retries), kMaximumBackoffMicroseconds)
    ELSE 0
DelayMicros(initial, retries, r) ==
    IF initial > 0
    THEN Min(ShiftLeft(initial, retries), kMaximumBackoffMicroseconds) + (r % 1000000)
    ELSE 0

\* retrying_utils.cc:58-62: the ABORTED status, embedding status.ToString()
AbortedStatus(status) ==
    [code |-> "ABORTED", attempt |-> status.attempt, last |-> status.code]

\* retrying_utils.cc:55, the test that ends the retries
RetriesExhausted_OffByOne(retries) == retries > kMaxRetries
RetriesExhausted(retries) == retries >= kMaxRetries

(***************************************************************************)
(* One iteration of the while (true) loop of CallWithRetries               *)
(* (retrying_utils.cc:50-77), after f() returned status: e is the          *)
(* envelope's state, r the value random::New64() returns.                  *)
(***************************************************************************)
LoopIteration(e, status, initial, errors, r) ==
    LET called == [e EXCEPT !.status = status, !.calls = @ + 1]
    IN  IF ~IsRetriable(errors, status.code)
        THEN [called EXCEPT !.pc = "done", !.result = status]
        ELSE IF RetriesExhausted(e.retries)
        THEN [called EXCEPT !.pc = "done", !.result = AbortedStatus(status)]
        ELSE LET delay_micros == DelayMicros(initial, e.retries, r)
             IN  [called EXCEPT !.prev_base = e.delay - e.random_micros,
                                !.random_micros = IF initial > 0 THEN r % 1000000 ELSE 0,
                                !.delay = delay_micros,
                                !.sleeps = @ + 1,
                                !.retries = @ + 1]

(***************************************************************************)
(* The lambda DeleteWithRetries hands to CallWithRetries                   *)
(* (retrying_utils.cc:86-93): raw is what delete_func() returned.          *)
(***************************************************************************)
DeleteLambda_NeverAbsorb(is_retried, raw) ==
    [status |-> raw, is_retried |-> TRUE]
DeleteLambda_AlwaysAbsorb(is_retried, raw) ==
    IF raw.code = "NOT_FOUND"
    THEN [status |-> StatusOK, is_retried |-> is_retried]
    ELSE [status |-> raw, is_retried |-> TRUE]
DeleteLambda(is_retried, raw) ==
    IF is_retried /\ raw.code = "NOT_FOUND"
    THEN [status |-> StatusOK, is_retried |-> is_retried]
    ELSE [status |-> raw, is_retried |-> TRUE]

\* The state of an envelope when CallWithRetries / DeleteWithRetries is entered
\* (retrying_utils.cc:49 and :84).
NewEnvelope ==
    [pc |-> "run", retries |-> 0, is_retried |-> FALSE,
     status |-> NoStatus, result |-> NoStatus,
     calls |-> 0, sleeps |-> 0,
     delay |-> 0, random_micros |-> 0, prev_base |-> 0]

Modes == {"call", "delete"}

\* One attempt of envelope m on the outcome raw of the wrapped function.
Attempt(m, e, raw, initial, errors, r) ==
    IF e.pc # "run" THEN e
    ELSE IF m = "call" THEN LoopIteration(e, raw, initial, errors, r)
    ELSE LET l == DeleteLambda(e.is_retried, raw)
         IN  LoopIteration([e EXCEPT !.is_retried = l.is_retried],
                           l.status, initial, errors, r)

\* RetryingS3FileSystem (s3_file_system.h:97-107) and RetryingFileSystem
\* (retrying_file_system.h:36-42): the configurations an envelope runs under.
RetryConfigs ==
    {[adapter |-> "s3", delay |-> S3InitDelayMicroseconds, errors |-> S3RetriableErrors]}
    \cup {[adapter |-> "generic", delay |-> d, errors |-> DefaultRetriableErrors] :
            d \in DelaySamples}

\* No reader is open, nothing of the client provider is constructed and no
\* thread is inside a getter.
InitClientIdle ==
    /\ reader = <<>>
    /\ fs = <<>>
    /\ threads = <<>>

InitFileIdle ==
    /\ InitClientIdle
    /\ store = <<>>
    /\ wf = <<>>
    /\ fresh = 1
    /\ ret = <<>>

InitRetry ==
    /\ \E c \in RetryConfigs :
         /\ adapter = c.adapter
         /\ initial_delay_microseconds = c.delay
         /\ retriable_errors = c.errors
    /\ env = [m \in Modes |-> NewEnvelope]
    /\ raw_log = [n |-> 0, nret |-> 0, last |-> NoStatus, first |-> "-",
                  prev |-> "-", nf_after_first |-> FALSE]
    /\ InitFileIdle

(***************************************************************************)
(* The wrapped function returns code; both envelopes, run on the same      *)
(* script, take the outcome (an envelope that has returned ignores it).    *)
(***************************************************************************)
Invoke(code, r) ==
    /\ \E m \in Modes : env[m].pc = "run"
    /\ LET raw == MakeStatus(code, raw_log.n + 1)
       IN  /\ env' = [m \in Modes |->
                        Attempt(m, env[m], raw, initial_delay_microseconds,
                                retriable_errors, r)]
           /\ raw_log' = [n |-> raw_log.n + 1,
                          nret |-> IF code \in retriable_errors
                                   THEN raw_log.nret + 1 ELSE raw_log.nret,
                          last |-> raw,
                          first |-> IF raw_log.n = 0 THEN code ELSE raw_log.first,
                          prev |-> raw_log.last.code,
                          nf_after_first |-> raw_log.nf_after_first
                                             \/ (raw_log.n >= 1 /\ code = "NOT_FOUND")]
    /\ UNCHANGED <<adapter, initial_delay_microseconds, retriable_errors, file_vars,
                   client_vars>>

NextRetry == \E code \in Codes, r \in RandomSamples : Invoke(code, r)

SpecRetry == InitRetry /\ [][NextRetry]_vars

(***************************************************************************)
(* Paths.  A path is the sequence of its characters.                       *)
(***************************************************************************)
Letter == {"a", "b", "h", "s"}
LetterDigitDot == Letter \cup {"3", "."}

P_a == <<"s", "3", ":", "/", "/", "b", "/", "a">>                 \* s3://b/a
P_a_b == <<"s", "3", ":", "/", "/", "b", "/", "a", "/", "b">>     \* s3://b/a/b
P_bucket == <<"s", "3", ":", "/", "/", "b">>                      \* s3://b
P_http == <<"h", ":", "/", "/", "b", "/", "a">>                   \* h://b/a

\* The paths the caller passes to the facade.
FilePaths == {P_a, P_a_b, P_bucket, P_http}

\* The paths of the directory operations: s3://b/a, s3://b/a/b and s3://b/h
\* with and without a trailing slash, the bucket, and a path of another scheme.
P_a_slash == Append(P_a, "/")
P_a_b_slash == Append(P_a_b, "/")
P_h == <<"s", "3", ":", "/", "/", "b", "/", "h">>
P_h_slash == Append(P_h, "/")
DirPaths == {P_a, P_a_slash, P_a_b, P_a_b_slash, P_h, P_h_slash, P_bucket, P_http}

\* The bucket that exists, and the keys objects are stored under.
TheBucket == <<"b">>
ObjectKeys == {<<"a">>, <<"a", "/", "b">>}

\* Scanner::Many(LETTER_DIGIT_DOT): the first index at or after i whose
\* character is outside the class.
RECURSIVE ScanMany(_, _)
ScanMany(s, i) ==
    IF i <= Len(s) /\ s[i] \in LetterDigitDot THEN ScanMany(s, i + 1) ELSE i

\* Scanner::ScanUntil('/'): the index of the first '/' at or after i, 0 if none.
RECURSIVE ScanUntilSlash(_, _)
ScanUntilSlash(s, i) ==
    IF i > Len(s) THEN 0
    ELSE IF s[i] = "/" THEN i
    ELSE ScanUntilSlash(s, i + 1)

\* io::ParseURI: scheme://host/path; without a scheme the whole string is the
\* path.  SchemeEnd is the index of the ':' that ends the scheme, 0 if the
\* string does not begin with a letter.
SchemeEnd(uri) ==
    IF Len(uri) >= 1 /\ uri[1] \in Letter THEN ScanMany(uri, 2) ELSE 0

HostAndPath(scheme, rest, slash) ==
    IF slash = 0
    THEN [scheme |-> scheme, host |-> rest, path |-> <<>>]
    ELSE [scheme |-> scheme,
          host |-> SubSeq(rest, 1, slash - 1),
          path |-> SubSeq(rest, slash, Len(rest))]

SplitURI(uri, n) ==
    IF ~(n > 0 /\ n + 2 <= Len(uri) /\ SubSeq(uri, n, n + 2) = <<":", "/", "/">>)
    THEN [scheme |-> <<>>, host |-> <<>>, path |-> uri]
    ELSE HostAndPath(SubSeq(uri, 1, n - 1), SubSeq(uri, n + 3, Len(uri)),
                     ScanUntilSlash(SubSeq(uri, n + 3, Len(uri)), 1))

ParseURI(uri) == SplitURI(uri, SchemeEnd(uri))

\* ConsumeSlash applied twice: up to two leading '/' removed.
ConsumeSlash_Twice(s) ==
    IF Len(s) >= 2 /\ s[1] = "/" /\ s[2] = "/" THEN Tail(Tail(s))
    ELSE IF Len(s) >= 1 /\ s[1] = "/" THEN Tail(s)
    ELSE s

\* str_util::ConsumePrefix(&s, "/")
ConsumeSlash(s) == IF Len(s) >= 1 /\ s[1] = "/" THEN Tail(s) ELSE s

\* s3_file_system.cc:172-195: the checks of ParseS3Path on the parsed URI u
CheckS3Path(u, empty_object_ok) ==
    IF u.scheme # <<"s", "3">>
    THEN [code |-> "INVALID_ARGUMENT", bucket |-> <<>>, object |-> <<>>]
    ELSE IF u.host = <<>> \/ u.host = <<".">>
    THEN [code |-> "INVALID_ARGUMENT", bucket |-> u.host, object |-> <<>>]
    ELSE IF ~empty_object_ok /\ ConsumeSlash(u.path) = <<>>
    THEN [code |-> "INVALID_ARGUMENT", bucket |-> u.host,
          object |-> ConsumeSlash(u.path)]
    ELSE [code |-> "OK", bucket |-> u.host, object |-> ConsumeSlash(u.path)]

ParseS3Path(fname, empty_object_ok) ==
    CheckS3Path(ParseURI(fname), empty_object_ok)

\* ParseS3Path over the paths the callers use, computed once.
ParsedPaths ==
    [fname \in FilePaths \cup DirPaths |->
        [empty_object_ok \in BOOLEAN |-> ParseS3Path(fname, empty_object_ok)]]

(***************************************************************************)
(* The object store, as the S3 client shows it.  Requests may fail for     *)
(* reasons of their own (fault = TRUE).                                    *)
(***************************************************************************)
NoObject == [exists |-> FALSE, body |-> <<>>]
Object(body) == [exists |-> TRUE, body |-> body]

\* The object at (bucket, key), NoObject if there is none.
Lookup(st, bucket, key) ==
    IF bucket = TheBucket /\ key \in DOMAIN st THEN st[key] ELSE NoObject

\* PutObject / CompleteMultipartUpload / DeleteObject: the store with obj at key.
Put(st, key, obj) ==
    [k \in DOMAIN st \cup {key} |-> IF k = key THEN obj ELSE st[k]]

IsPrefixOf(p, s) == Len(p) <= Len(s) /\ SubSeq(s, 1, Len(p)) = p

\* ListObjects(bucket, prefix).GetContents(): the keys that begin with prefix.
ListedKeys(st, bucket, prefix) ==
    {k \in DOMAIN st : bucket = TheBucket /\ st[k].exists /\ IsPrefixOf(prefix, k)}

\* string::back() != '/' => push_back('/')
WithTrailingSlash(s) ==
    IF Len(s) >= 1 /\ s[Len(s)] = "/" THEN s ELSE Append(s, "/")

\* The order S3 lists keys in: bytewise, '/' before the letters.
CharRank == [c \in {"/", "a", "b", "h", "s"} |->
                CASE c = "/" -> 1 [] c = "a" -> 2 [] c = "b" -> 3
                  [] c = "h" -> 4 [] c = "s" -> 5]

RECURSIVE LexLess(_, _)
LexLess(s, t) ==
    IF t = <<>> THEN FALSE
    ELSE IF s = <<>> THEN TRUE
    ELSE IF s[1] = t[1] THEN LexLess(Tail(s), Tail(t))
    ELSE CharRank[s[1]] < CharRank[t[1]]

MinKey(S) == CHOOSE x \in S : \A y \in S \ {x} : LexLess(x, y)

RECURSIVE SortKeys(_)
SortFrom(S, m) == <<m>> \o SortKeys(S \ {m})
SortKeys(S) == IF S = {} THEN <<>> ELSE SortFrom(S, MinKey(S))

\* Whether key k has a delimiter after the prefix, and the entry ListObjects
\* shows for it: with a delimiter, the common prefix that ends at the first
\* '/' after the prefix; else the key.
HasDelimiterAfter(k, prefix) ==
    \E i \in (Len(prefix) + 1)..Len(k) : k[i] = "/"
RolledUp(k, prefix) ==
    SubSeq(k, 1, CHOOSE i \in (Len(prefix) + 1)..Len(k) :
                    k[i] = "/" /\ \A j \in (Len(prefix) + 1)..(i - 1) : k[j] # "/")
ListEntry(k, prefix, delimiter) ==
    IF delimiter /\ HasDelimiterAfter(k, prefix) THEN RolledUp(k, prefix) ELSE k

\* One page of a ListObjects result: at most max_keys of the entries after
\* the marker, in order.  NextMarker is returned only to a request that has a
\* delimiter, and only when the page is truncated.
PageOf(after, prefix, delimiter, max_keys) ==
    [common_prefixes |->
        SelectSeq(SubSeq(after, 1, Min(max_keys, Len(after))),
                  LAMBDA e : delimiter /\ HasDelimiterAfter(e, prefix)),
     contents |->
        SelectSeq(SubSeq(after, 1, Min(max_keys, Len(after))),
                  LAMBDA e : ~(delimiter /\ HasDelimiterAfter(e, prefix))),
     is_truncated |-> Len(after) > max_keys,
     next_marker |-> IF delimiter /\ Len(after) > max_keys
                     THEN after[max_keys] ELSE <<>>]

\* ListObjects(bucket, prefix, delimiter, max-keys, marker)
ListObjects(st, bucket, prefix, delimiter, max_keys, marker) ==
    PageOf(SelectSeq(SortKeys({ListEntry(k, prefix, delimiter) :
                                   k \in ListedKeys(st, bucket, prefix)}),
                     LAMBDA e : LexLess(marker, e)),
           prefix, delimiter, max_keys)

\* s3_file_system.cc:208: offset + n - 1 in uint64; 0 + 0 - 1 wraps to the
\* largest value, which lies beyond every object (kuint64max stands for 2^64 - 1).
kuint64max == 2147483647
RangeLast(offset, n) == IF offset + n = 0 THEN kuint64max ELSE offset + n - 1

\* GetObject with Range bytes=first-last on an object: 416 when first is at or
\* beyond the end, else the bytes first..min(last, length - 1).
GetObjectRange(obj, first, last, fault) ==
    IF fault \/ ~obj.exists
    THEN [ok |-> FALSE, http |-> 500, body |-> <<>>]
    ELSE IF first >= Len(obj.body)
    THEN [ok |-> FALSE, http |-> 416, body |-> <<>>]
    ELSE [ok |-> TRUE, http |-> 206,
          body |-> SubSeq(obj.body, first + 1, Min(last, Len(obj.body) - 1) + 1)]

\* s3_file_system.cc:214-227: what Read makes of the outcome of GetObject.
\* The first definition is the function without the test for 416.
ReadOutcome_No416(out) ==
    IF ~out.ok
    THEN [code |-> "UNKNOWN", result |-> <<>>]
    ELSE [code |-> "OK", result |-> out.body]
ReadOutcome(out) ==
    IF ~out.ok
    THEN IF out.http = 416
         THEN [code |-> "OUT_OF_RANGE", result |-> <<>>]
         ELSE [code |-> "UNKNOWN", result |-> <<>>]
    ELSE [code |-> "OK", result |-> out.body]

\* S3RandomAccessFile::Read, s3_file_system.cc:203-228
Read(st, bucket, object, offset, n, fault) ==
    ReadOutcome(GetObjectRange(Lookup(st, bucket, object), offset,
                               RangeLast(offset, n), fault))

\* s3_file_system.cc:550-588: Stat of a non-empty key, from the object HeadObject
\* shows and the keys ListObjects returns for key + "/"
StatObject_FileWins(obj, head_ok, listed) ==
    IF head_ok
    THEN [code |-> "OK", length |-> Len(obj.body), is_directory |-> FALSE]
    ELSE IF listed # {}
    THEN [code |-> "OK", length |-> 0, is_directory |-> TRUE]
    ELSE [code |-> "NOT_FOUND", length |-> 0, is_directory |-> FALSE]
StatObject(obj, head_ok, listed) ==
    IF listed # {}
    THEN [code |-> "OK", length |-> 0, is_directory |-> TRUE]
    ELSE IF head_ok
    THEN [code |-> "OK", length |-> Len(obj.body), is_directory |-> FALSE]
    ELSE [code |-> "NOT_FOUND", length |-> 0, is_directory |-> FALSE]

\* s3_file_system.cc:535-589: Stat after ParseS3Path(fname, true) gave p
StatParsed(st, p, head_fault, list_fault) ==
    IF p.code # "OK"
    THEN [code |-> p.code, length |-> 0, is_directory |-> FALSE]
    ELSE IF p.object = <<>>
    THEN IF head_fault \/ p.bucket # TheBucket
         THEN [code |-> "UNKNOWN", length |-> 0, is_directory |-> FALSE]
         ELSE [code |-> "OK", length |-> 0, is_directory |-> TRUE]
    ELSE StatObject(Lookup(st, p.bucket, p.object),
                    ~head_fault /\ Lookup(st, p.bucket, p.object).exists,
                    IF list_fault THEN {}
                    ELSE ListedKeys(st, p.bucket, WithTrailingSlash(p.object)))

\* S3FileSystem::Stat, s3_file_system.cc:533-589
Stat(st, fname, head_fault, list_fault) ==
    StatParsed(st, ParsedPaths[fname][TRUE], head_fault, list_fault)

(***************************************************************************)
(* S3WritableFile, s3_file_system.cc:239-333.  outfile_ is a TempFile, a   *)
(* file stream: its content, its position and whether it is good().        *)
(***************************************************************************)
\* s3_file_system.cc:56
kUploadRetries == 5
\* s3_file_system.cc:51, in bytes of the model (1 MiB in the code)
kS3ReadAppendableFileBufferSize == 2
\* The caller appends at most MaxBytes bytes in one behaviour.
MaxBytes == 2

NoFile ==
    [handle |-> FALSE, outfile |-> FALSE, path |-> <<>>, bucket |-> <<>>,
     object |-> <<>>, sync_needed |-> FALSE, content |-> <<>>, pos |-> 0,
     good |-> TRUE,
     \* ghost: how the handle was made, what it was seeded with, the bytes
     \* Append accepted, whether every call on it returned OK, whether the
     \* last call on it was a Sync that returned OK
     kind |-> "none", seed |-> <<>>, accepted |-> <<>>,
     clean |-> TRUE, last_sync_ok |-> FALSE]

\* S3WritableFile::S3WritableFile, s3_file_system.cc:241-253
NewS3WritableFile(fname, bucket, object, kind) ==
    [NoFile EXCEPT !.handle = TRUE, !.outfile = TRUE, !.path = fname,
                   !.bucket = bucket, !.object = object, !.sync_needed = TRUE,
                   !.kind = kind]

\* ostream::write at the stream's position
Overwrite(content, pos, data) ==
    [i \in 1..Max(Len(content), pos + Len(data)) |->
        IF i > pos /\ i <= pos + Len(data) THEN data[i - pos] ELSE content[i]]

\* outfile_->write(data.data(), data.size()): nothing is written by a stream
\* that is not good(); a write the disk refuses sets badbit.
StreamWrite(f, data, disk_ok) ==
    IF ~f.good \/ (Len(data) > 0 /\ ~disk_ok)
    THEN [f EXCEPT !.good = FALSE]
    ELSE [f EXCEPT !.content = Overwrite(f.content, f.pos, data),
                   !.pos = f.pos + Len(data)]

\* s3_file_system.cc:262-266: the status of Append after the write left g
AppendStatus(g) ==
    [file |-> g, code |-> IF ~g.good THEN "INTERNAL" ELSE "OK"]

\* Append without the test of outfile_ (lines 256-259).
FileAppend_IgnoresClosed(f, data, disk_ok) ==
    AppendStatus(StreamWrite([f EXCEPT !.sync_needed = TRUE], data, disk_ok))
\* S3WritableFile::Append, s3_file_system.cc:255-267
FileAppend(f, data, disk_ok) ==
    IF ~f.outfile
    THEN [file |-> f, code |-> "FAILED_PRECONDITION"]
    ELSE AppendStatus(StreamWrite([f EXCEPT !.sync_needed = TRUE], data, disk_ok))

\* The status of the transfer after its i-th attempt (WaitUntilFinished): the
\* first nfail attempts end FAILED, the next ends final.  A stream that is not
\* good() cannot be read, so no attempt on it completes.
TransferStatus(f, nfail, final, i) ==
    IF ~f.good \/ i <= nfail THEN "FAILED" ELSE final

\* The retry loop with retries <= kUploadRetries as its bound.
RECURSIVE RetryLoop_OneMore(_, _, _, _)
RetryLoop_OneMore(f, nfail, final, retries) ==
    IF TransferStatus(f, nfail, final, retries + 1) = "FAILED" /\ retries <= kUploadRetries
    THEN RetryLoop_OneMore(f, nfail, final, retries + 1)
    ELSE retries

\* s3_file_system.cc:294-302: the retry loop of Sync; the number of
\* RetryUpload calls it makes.
RECURSIVE RetryLoop(_, _, _, _)
RetryLoop(f, nfail, final, retries) ==
    IF TransferStatus(f, nfail, final, retries + 1) = "FAILED" /\ retries < kUploadRetries
    THEN RetryLoop(f, nfail, final, retries + 1)
    ELSE retries

\* s3_file_system.cc:303-310: the end of Sync, after the transfer ended with
\* status having made uploads attempts and left the stream moved; offset is
\* the position recorded at entry.
SyncResult_NoSeek(f, st, offset, moved, status, uploads) ==
    IF status # "COMPLETED"
    THEN [file |-> moved, store |-> st, code |-> "UNKNOWN", uploads |-> uploads]
    ELSE [file |-> [moved EXCEPT !.good = TRUE],
          store |-> Put(st, f.object, Object(f.content)),
          code |-> "OK", uploads |-> uploads]
SyncResult(f, st, offset, moved, status, uploads) ==
    IF status # "COMPLETED"
    THEN [file |-> moved, store |-> st, code |-> "UNKNOWN", uploads |-> uploads]
    ELSE [file |-> [moved EXCEPT !.good = TRUE, !.pos = offset],
          store |-> Put(st, f.object, Object(f.content)),
          code |-> "OK", uploads |-> uploads]

\* s3_file_system.cc:286-302: the upload and its retries.  An upload sends the
\* whole spill file and leaves the stream where the transfer manager stopped
\* reading (at after_pos, good() = after_good).
Upload(f, st, nfail, final, after_pos, after_good, retries) ==
    SyncResult(f, st,
               IF f.good THEN f.pos ELSE -1,
               [f EXCEPT !.pos = IF f.good THEN after_pos ELSE f.pos,
                         !.good = f.good /\ after_good],
               TransferStatus(f, nfail, final, retries + 1),
               retries + 1)

\* S3WritableFile::Sync, s3_file_system.cc:279-311
FileSync(f, st, nfail, final, after_pos, after_good) ==
    IF ~f.outfile
    THEN [file |-> f, store |-> st, code |-> "FAILED_PRECONDITION", uploads |-> 0]
    ELSE IF ~f.sync_needed
    THEN [file |-> f, store |-> st, code |-> "OK", uploads |-> 0]
    ELSE Upload(f, st, nfail, final, after_pos, after_good,
                RetryLoop(f, nfail, final, 0))

\* s3_file_system.cc:271-272: Close after its Sync returned s
CloseAfterSync(s) ==
    IF s.code # "OK" THEN s
    ELSE [s EXCEPT !.file = [s.file EXCEPT !.outfile = FALSE]]

\* Close without the test of outfile_ (line 270).
FileClose_AlwaysSyncs(f, st, nfail, final, after_pos, after_good) ==
    CloseAfterSync(FileSync(f, st, nfail, final, after_pos, after_good))
\* S3WritableFile::Close, s3_file_system.cc:269-275
FileClose(f, st, nfail, final, after_pos, after_good) ==
    IF f.outfile
    THEN CloseAfterSync(FileSync(f, st, nfail, final, after_pos, after_good))
    ELSE [file |-> f, store |-> st, code |-> "OK", uploads |-> 0]

\* RetryingWritableFile::Close, retrying_file_system.h: CallWithRetries around
\* Close of the wrapped file.  calls counts the Close calls made so far; the
\* upload of each of the first fails calls ends FAILED on every attempt and
\* leaves the stream at after_pos, good() = after_good.  uploads adds up
\* the upload attempts of all calls.
RECURSIVE CloseWithRetries(_, _, _, _, _, _, _)
CloseRetried(c, calls, uploads, fails, after_pos, after_good) ==
    IF ~IsRetriable(S3RetriableErrors, c.code)
    THEN [file |-> c.file, store |-> c.store, code |-> c.code,
          uploads |-> uploads + c.uploads, calls |-> calls + 1]
    ELSE IF calls >= kMaxRetries
    THEN [file |-> c.file, store |-> c.store, code |-> "ABORTED",
          uploads |-> uploads + c.uploads, calls |-> calls + 1]
    ELSE CloseWithRetries(c.file, c.store, calls + 1, uploads + c.uploads,
                          fails, after_pos, after_good)
CloseWithRetries(f, st, calls, uploads, fails, after_pos, after_good) ==
    CloseRetried(FileClose(f, st,
                           IF calls < fails THEN kUploadRetries + 1 ELSE 0,
                           "COMPLETED",
                           IF calls < fails THEN after_pos ELSE 0,
                           calls >= fails \/ after_good),
                 calls, uploads, fails, after_pos, after_good)


(***************************************************************************)
(* The facade, S3FileSystem.                                               *)
(***************************************************************************)
\* s3_file_system.cc:444-457: the loop of NewAppendableFile, which copies the
\* object into the new file chunk by chunk.  reads counts the Read calls made;
\* the fault_at-th of them fails at the server (0: none).  The status of the
\* Append calls is not looked at.
RECURSIVE SeedLoop(_, _, _, _, _, _)
\* One turn of the loop, after Read returned r and Append of the chunk a.
SeedTurn(st, f, offset, reads, fault_at, disk_ok, r, a) ==
    IF r.code = "OK"
    THEN SeedLoop(st,
                  [a.file EXCEPT !.accepted =
                      IF a.code = "OK" THEN f.accepted \o r.result ELSE f.accepted],
                  offset + kS3ReadAppendableFileBufferSize, reads + 1,
                  fault_at, disk_ok)
    ELSE IF r.code = "OUT_OF_RANGE"
    THEN [file |-> [a.file EXCEPT !.accepted =
                       IF a.code = "OK" THEN f.accepted \o r.result ELSE f.accepted],
          code |-> "OK"]
    ELSE [file |-> NoFile, code |-> r.code]

SeedChunk(st, f, offset, reads, fault_at, disk_ok, r) ==
    SeedTurn(st, f, offset, reads, fault_at, disk_ok, r,
             FileAppend(f, r.result, disk_ok))

SeedLoop(st, f, offset, reads, fault_at, disk_ok) ==
    SeedChunk(st, f, offset, reads, fault_at, disk_ok,
              Read(st, f.bucket, f.object, offset, kS3ReadAppendableFileBufferSize,
                   reads + 1 = fault_at))

\* s3_file_system.cc:439-459: NewAppendableFile after ParseS3Path gave p
SeedParsed(st, fname, p, fault_at, disk_ok) ==
    IF p.code # "OK" THEN [file |-> NoFile, code |-> p.code]
    ELSE SeedLoop(st,
                  [NewS3WritableFile(fname, p.bucket, p.object, "append")
                      EXCEPT !.seed = Lookup(st, p.bucket, p.object).body],
                  0, 0, fault_at, disk_ok)

\* S3FileSystem::NewAppendableFile, s3_file_system.cc:430-460
AppendableFile(st, fname, fault_at, disk_ok) ==
    SeedParsed(st, fname, ParsedPaths[fname][FALSE], fault_at, disk_ok)

\* s3_file_system.cc:473-475: the region after Read(0, size) returned r.  The
\* region is the buffer of size bytes; a Read that delivers more bytes than
\* size writes past the end of the buffer (overrun).
RegionRead(size, r) ==
    IF r.code # "OK"
    THEN [code |-> r.code, data |-> <<>>, length |-> 0, overrun |-> FALSE]
    ELSE [code |-> "OK",
          data |-> SubSeq(r.result, 1, Min(size, Len(r.result))),
          length |-> size,
          overrun |-> Len(r.result) > size]

\* s3_file_system.cc:464-475: after GetFileSize returned stats and
\* ParseS3Path(fname, false) gave p
RegionStat(st, stats, p, read_fault) ==
    IF stats.code # "OK"
    THEN [code |-> stats.code, data |-> <<>>, length |-> 0, overrun |-> FALSE]
    ELSE IF p.code # "OK"
    THEN [code |-> p.code, data |-> <<>>, length |-> 0, overrun |-> FALSE]
    ELSE RegionRead(stats.length,
                    Read(st, p.bucket, p.object, 0, stats.length, read_fault))

\* S3FileSystem::NewReadOnlyMemoryRegionFromFile, s3_file_system.cc:462-476
ReadOnlyMemoryRegion(st, fname, head_fault, list_fault, read_fault) ==
    RegionStat(st, Stat(st, fname, head_fault, list_fault),
               ParsedPaths[fname][FALSE], read_fault)

(***************************************************************************)
(* The directory operations of the facade.                                 *)
(***************************************************************************)
\* Scaled page size of GetChildren and RenameFile (100 in the source, line 54)
\* and scaled part size of MultiPartCopy (5 MiB in the source, line 53).
kS3GetChildrenMaxKeys == 2
kS3MultiPartCopyPartSize == 2

\* DeleteObject: the store without the object at key.
DeleteObject(st, key) ==
    IF key \in DOMAIN st THEN [st EXCEPT ![key] = NoObject] ELSE st

\* S3FileSystem::FileExists, s3_file_system.cc:478-482: the first definition
\* is the function with "every error but NotFound becomes OK".
FileExists_OnlyNotFound(st, fname, head_fault, list_fault) ==
    IF Stat(st, fname, head_fault, list_fault).code = "NOT_FOUND"
    THEN "NOT_FOUND" ELSE "OK"
FileExists(st, fname, head_fault, list_fault) ==
    Stat(st, fname, head_fault, list_fault).code

\* s3_file_system.cc:512-526: the entries one page adds to the result
ChildOfPrefix(s, prefix) == SubSeq(s, Len(prefix) + 1, Len(s) - 1)
ChildOfKey(s, prefix) == SubSeq(s, Len(prefix) + 1, Len(s))
PageChildren(page, prefix) ==
    SelectSeq([i \in 1..Len(page.common_prefixes) |->
                  ChildOfPrefix(page.common_prefixes[i], prefix)],
              LAMBDA entry : Len(entry) > 0)
    \o SelectSeq([i \in 1..Len(page.contents) |->
                     ChildOfKey(page.contents[i], prefix)],
                 LAMBDA entry : Len(entry) > 0)

\* s3_file_system.cc:503-528: the do-while loop of GetChildren.  requests
\* counts the ListObjects calls made; the fault_at-th of them fails (0: none).
\* markers are the markers the requests carried.
RECURSIVE GetChildrenLoop(_, _, _, _, _, _, _, _)
\* The loop body without the test of IsTruncated: one page only.
GetChildrenPage_OnePage(st, bucket, prefix, result, markers, requests, fault_at, page) ==
    [code |-> "OK", children |-> result \o PageChildren(page, prefix),
     markers |-> markers]
GetChildrenPage(st, bucket, prefix, result, markers, requests, fault_at, page) ==
    IF page.is_truncated
    THEN GetChildrenLoop(st, bucket, prefix, page.next_marker,
                         result \o PageChildren(page, prefix),
                         markers, requests, fault_at)
    ELSE [code |-> "OK", children |-> result \o PageChildren(page, prefix),
          markers |-> markers]
GetChildrenLoop(st, bucket, prefix, marker, result, markers, requests, fault_at) ==
    IF requests + 1 = fault_at
    THEN [code |-> "UNKNOWN", children |-> result, markers |-> Append(markers, marker)]
    ELSE GetChildrenPage(st, bucket, prefix, result, Append(markers, marker),
                         requests + 1, fault_at,
                         ListObjects(st, bucket, prefix, TRUE,
                                     kS3GetChildrenMaxKeys, marker))

\* s3_file_system.cc:488-530: GetChildren after ParseS3Path(dir, false) gave p
GetChildrenParsed(st, p, fault_at) ==
    IF p.code # "OK" THEN [code |-> p.code, children |-> <<>>, markers |-> <<>>]
    ELSE GetChildrenLoop(st, p.bucket, WithTrailingSlash(p.object), <<>>,
                         <<>>, <<>>, 0, fault_at)

\* S3FileSystem::GetChildren, s3_file_system.cc:484-531
GetChildren(st, dir, fault_at) ==
    GetChildrenParsed(st, ParsedPaths[dir][FALSE], fault_at)

\* s3_file_system.cc:488-530 with the vector the caller handed in: GetChildren
\* only appends to *result (push_back, lines 516 and 524) and never clears it.
GetChildrenAppending(st, p, result, fault_at) ==
    IF p.code # "OK" THEN [code |-> p.code, children |-> result, markers |-> <<>>]
    ELSE GetChildrenLoop(st, p.bucket, WithTrailingSlash(p.object), <<>>,
                         result, <<>>, 0, fault_at)

\* The request of an attempt that fails: request number at of each of the
\* first count attempts (0: none).
AttemptFault(attempt, at, count) == IF attempt <= count THEN at ELSE 0

\* RetryingFileSystem::GetChildren, retrying_file_system.h:71-77:
\* CallWithRetries around a lambda that hands the same result vector to
\* GetChildren of the wrapped file system on every attempt.  g is what the
\* attempt returned, retries the counter of CallWithRetries.
RECURSIVE GetChildrenWithRetries(_, _, _, _, _, _)
GetChildrenRetried(st, dir, g, retries, at, count) ==
    IF ~IsRetriable(S3RetriableErrors, g.code)
    THEN [code |-> g.code, children |-> g.children, calls |-> retries + 1]
    ELSE IF retries >= kMaxRetries
    THEN [code |-> "ABORTED", children |-> g.children, calls |-> retries + 1]
    ELSE GetChildrenWithRetries(st, dir, g.children, retries + 1, at, count)
GetChildrenWithRetries(st, dir, result, retries, at, count) ==
    GetChildrenRetried(st, dir,
                       GetChildrenAppending(st, ParsedPaths[dir][FALSE], result,
                                            AttemptFault(retries + 1, at, count)),
                       retries, at, count)

\* s3_file_system.cc:600-609: DeleteFile after ParseS3Path(fname, false) gave p
DeleteFileParsed(st, p, delete_fault) ==
    IF p.code # "OK" THEN [code |-> p.code, store |-> st]
    ELSE IF delete_fault THEN [code |-> "UNKNOWN", store |-> st]
    ELSE [code |-> "OK", store |-> DeleteObject(st, p.object)]

\* S3FileSystem::DeleteFile, s3_file_system.cc:596-610
DeleteFile(st, fname, delete_fault) ==
    DeleteFileParsed(st, ParsedPaths[fname][FALSE], delete_fault)

\* s3_file_system.cc:629-634: CreateDir of a non-empty key, after
\* FileExists(filename) returned exists: NewWritableFile(filename) and Close.
\* The first definition is the function without the test of exists.
CreateDirFile_AlwaysWrites(st, filename, exists, p, nfail, final) ==
    IF p.code # "OK" THEN [code |-> p.code, store |-> st, uploads |-> 0]
    ELSE FileClose(NewS3WritableFile(filename, p.bucket, p.object, "write"),
                   st, nfail, final, 0, TRUE)
CreateDirFile(st, filename, exists, p, nfail, final) ==
    IF exists = "OK" THEN [code |-> "OK", store |-> st, uploads |-> 0]
    ELSE IF p.code # "OK" THEN [code |-> p.code, store |-> st, uploads |-> 0]
    ELSE FileClose(NewS3WritableFile(filename, p.bucket, p.object, "write"),
                   st, nfail, final, 0, TRUE)

\* s3_file_system.cc:614-634: CreateDir after ParseS3Path(dirname, true) gave p
CreateDirParsed(st, dirname, p, head_fault, list_fault, nfail, final) ==
    IF p.code # "OK" THEN [code |-> p.code, store |-> st, uploads |-> 0]
    ELSE IF p.object = <<>>
    THEN IF head_fault \/ p.bucket # TheBucket
         THEN [code |-> "NOT_FOUND", store |-> st, uploads |-> 0]
         ELSE [code |-> "OK", store |-> st, uploads |-> 0]
    ELSE CreateDirFile(st, WithTrailingSlash(dirname),
                       FileExists(st, WithTrailingSlash(dirname),
                                  head_fault, list_fault),
                       ParsedPaths[WithTrailingSlash(dirname)][FALSE],
                       nfail, final)

\* S3FileSystem::CreateDir, s3_file_system.cc:612-635
CreateDir(st, dirname, head_fault, list_fault, nfail, final) ==
    CreateDirParsed(st, dirname, ParsedPaths[dirname][TRUE],
                    head_fault, list_fault, nfail, final)

\* s3_file_system.cc:654-670: DeleteDir after ListObjects(prefix, MaxKeys 2)
\* returned contents.  The first definition is the function without the test
\* for other keys (lines 656-661).
DeleteDirListed_NoCheck(st, dirname, prefix, contents, delete_fault) ==
    IF Len(contents) >= 1 /\ contents[1] = prefix
    THEN DeleteFile(st, WithTrailingSlash(dirname), delete_fault)
    ELSE [code |-> "OK", store |-> st]
DeleteDirListed(st, dirname, prefix, contents, delete_fault) ==
    IF Len(contents) > 1 \/ (Len(contents) = 1 /\ contents[1] # prefix)
    THEN [code |-> "INTERNAL", store |-> st]
    ELSE IF Len(contents) = 1 /\ contents[1] = prefix
    THEN DeleteFile(st, WithTrailingSlash(dirname), delete_fault)
    ELSE [code |-> "OK", store |-> st]

\* s3_file_system.cc:640-670: DeleteDir after ParseS3Path(dirname, false) gave p
DeleteDirParsed(st, dirname, p, list_fault, delete_fault) ==
    IF p.code # "OK" THEN [code |-> p.code, store |-> st]
    ELSE IF list_fault THEN [code |-> "OK", store |-> st]
    ELSE DeleteDirListed(st, dirname, WithTrailingSlash(p.object),
                         ListObjects(st, p.bucket, WithTrailingSlash(p.object),
                                     FALSE, 2, <<>>).contents,
                         delete_fault)

\* S3FileSystem::DeleteDir, s3_file_system.cc:637-671
DeleteDir(st, dirname, list_fault, delete_fault) ==
    DeleteDirParsed(st, dirname, ParsedPaths[dirname][FALSE],
                    list_fault, delete_fault)

\* The store as ListObjects shows it on the given attempt of a retried call
\* when the listing lags behind the deletes: on the first stale attempts it
\* still shows an object under the prefix that is gone, prefix + "h".
ListedView(st, prefix, attempt, stale) ==
    IF attempt <= stale THEN Put(st, prefix \o <<"h">>, Object(<<>>)) ELSE st

\* s3_file_system.cc:640-670: DeleteDir when ListObjects answers from view
DeleteDirSeen(st, view, dirname, p) ==
    IF p.code # "OK" THEN [code |-> p.code, store |-> st]
    ELSE DeleteDirListed(st, dirname, WithTrailingSlash(p.object),
                         ListObjects(view, p.bucket, WithTrailingSlash(p.object),
                                     FALSE, 2, <<>>).contents,
                         FALSE)

\* RetryingFileSystem::DeleteDir, retrying_file_system.h: DeleteWithRetries
\* around DeleteDir of the wrapped file system.  retries and is_retried are
\* those of CallWithRetries and DeleteWithRetries; code is what the lambda
\* of DeleteWithRetries returned.  The first definition is the envelope
\* that returns the first status.
RECURSIVE DeleteDirWithRetries(_, _, _, _, _)
DeleteDirRetried_Once(d, code, dirname, retries, stale) ==
    [code |-> code, store |-> d.store, calls |-> retries + 1]
DeleteDirRetried(d, code, dirname, retries, stale) ==
    IF ~IsRetriable(S3RetriableErrors, code)
    THEN [code |-> code, store |-> d.store, calls |-> retries + 1]
    ELSE IF retries >= kMaxRetries
    THEN [code |-> "ABORTED", store |-> d.store, calls |-> retries + 1]
    ELSE DeleteDirWithRetries(d.store, dirname, retries + 1, TRUE, stale)
DeleteDirAttempt(d, dirname, retries, is_retried, stale) ==
    DeleteDirRetried(d, IF is_retried /\ d.code = "NOT_FOUND" THEN "OK" ELSE d.code,
                     dirname, retries, stale)
DeleteDirWithRetries(st, dirname, retries, is_retried, stale) ==
    DeleteDirAttempt(DeleteDirSeen(st,
                                   ListedView(st, WithTrailingSlash(
                                                     ParsedPaths[dirname][FALSE].object),
                                              retries + 1, stale),
                                   dirname, ParsedPaths[dirname][FALSE]),
                     dirname, retries, is_retried, stale)

\* The endpoint (S3, or the server S3_ENDPOINT names) and the requests of one
\* MultiPartCopy that fail for reasons of their own: strict is an endpoint
\* that validates part numbers, ranges and part lists as S3 documents them,
\* part_faults are the UploadPartCopy requests that fail, counted from 1
\* in the order they are sent; fall_off is the status the caller reads after
\* the function ends without a return statement.
CopyFaults ==
    [create_fault : {FALSE}, head_fault : {FALSE}, strict : BOOLEAN,
     part_faults : (SUBSET (1..3)) \cup {{4}, {6}, {4, 5, 6}},
     complete_fault : BOOLEAN, fall_off : {"OK", "UNKNOWN"}]
    \cup [create_fault : {TRUE}, head_fault : {FALSE}, strict : {TRUE},
          part_faults : {{}}, complete_fault : {FALSE}, fall_off : {"OK"}]
    \cup [create_fault : {FALSE}, head_fault : {TRUE}, strict : {TRUE},
          part_faults : {{}}, complete_fault : {FALSE}, fall_off : {"OK"}]

\* The number of decimal digits of n, and 10 to the d.
RECURSIVE Digits(_)
Digits(n) == IF n < 10 THEN 1 ELSE 1 + Digits(n \div 10)
RECURSIVE Pow10(_)
Pow10(d) == IF d = 0 THEN 1 ELSE 10 * Pow10(d - 1)

\* s3_file_system.cc:706: (partNumber - 1) * kS3MultiPartCopyPartSize in
\* size_t arithmetic; -1 is the largest value.
StartPos(partNumber) ==
    IF partNumber = 0 THEN (kuint64max - kS3MultiPartCopyPartSize) + 1
    ELSE (partNumber - 1) * kS3MultiPartCopyPartSize

\* s3_file_system.cc:707
EndPos(startPos) == startPos + (kS3MultiPartCopyPartSize - 1)

\* s3_file_system.cc:710: "bytes=" << startPos << to_string(startPos) << "-"
\* << to_string(endPos): the first number of the range as the server reads
\* it, the digits of startPos twice; kuint64max when it is beyond that.
RangeFirst(startPos) ==
    IF Digits(startPos) > 4 THEN kuint64max
    ELSE startPos * Pow10(Digits(startPos)) + startPos

\* s3_file_system.cc:713-722: the UploadPartCopy request of one attempt
PartRequest(partNumber) ==
    [req |-> "UploadPartCopy", partNumber |-> partNumber,
     startPos |-> StartPos(partNumber), endPos |-> EndPos(StartPos(partNumber)),
     first |-> RangeFirst(StartPos(partNumber)), ok |-> FALSE, parts |-> <<>>]

\* UploadPartCopy at the endpoint: the upload must be open; S3 takes part
\* numbers 1..10000 and a range that begins inside the source and does not
\* end before it begins.
UploadPartCopy(e, r, open, length, fault) ==
    /\ open
    /\ ~fault
    /\ e.strict => /\ r.partNumber \in 1..10000
                   /\ r.first <= r.endPos
                   /\ r.first < length

\* The bytes of the source an accepted part holds.
PartData(src, r) ==
    IF r.first >= Len(src.body) THEN <<>>
    ELSE SubSeq(src.body, r.first + 1, Min(r.endPos + 1, Len(src.body)))

\* CompleteMultipartUpload at the endpoint: S3 takes a list of parts in
\* ascending order of part number, each with the ETag it returned.
RECURSIVE Ascending(_)
Ascending(parts) ==
    \/ Len(parts) <= 1
    \/ parts[1].partNumber < parts[2].partNumber /\ Ascending(Tail(parts))

CompleteMultipartUpload(e, parts, open) ==
    /\ open
    /\ ~e.complete_fault
    /\ e.strict => /\ Len(parts) >= 1
                   /\ Ascending(parts)
                   /\ \A i \in 1..Len(parts) : parts[i].etag # 0

\* The object a completed upload makes: the data of its parts, in the order
\* of the list.
RECURSIVE Assemble(_)
Assemble(parts) ==
    IF parts = <<>> THEN <<>>
    ELSE (IF parts[1].etag # 0 THEN parts[1].data ELSE <<>>) \o Assemble(Tail(parts))

\* The copy so far: the store, completedMPURequest's parts, the requests
\* sent, the UploadPartCopy requests sent, whether the upload is still open.
NewCopy(st) ==
    [store |-> st, parts |-> <<>>, log |-> <<>>, sent |-> 0, open |-> TRUE]

\* s3_file_system.cc:733-737: the part added after an attempt; the ETag of a
\* failed outcome is empty (0), that of an accepted one names the request.
CompletedPart(c, src, r, ok) ==
    [partNumber |-> r.partNumber, etag |-> IF ok THEN c.sent + 1 ELSE 0,
     data |-> IF ok THEN PartData(src, r) ELSE <<>>]

\* s3_file_system.cc:702-738: the retry loop of one part.  retryCount is the
\* value tested by while (retryCount > 0); the loop has no exit on success,
\* and a part is added after every attempt but a failed last one.
RECURSIVE PartAttempts(_, _, _, _, _)
AttemptDone(c, e, src, r, retryCount, ok) ==
    IF ~ok /\ retryCount = 0
    THEN [copy |-> [c EXCEPT !.log = Append(@, [r EXCEPT !.ok = ok]),
                             !.sent = @ + 1],
          code |-> "UNKNOWN"]
    ELSE PartAttempts([c EXCEPT !.log = Append(@, [r EXCEPT !.ok = ok]),
                                !.sent = @ + 1,
                                !.parts = Append(@, CompletedPart(c, src, r, ok))],
                      e, src, r.partNumber, retryCount)
PartAttempts(c, e, src, partNumber, retryCount) ==
    IF retryCount <= 0 THEN [copy |-> c, code |-> "OK"]
    ELSE AttemptDone(c, e, src, PartRequest(partNumber), retryCount - 1,
                     UploadPartCopy(e, PartRequest(partNumber), c.open,
                                    Len(src.body), (c.sent + 1) \in e.part_faults))

\* s3_file_system.cc:740-749: CompleteMultipartUpload with the parts so far
CompleteRequest(c, ok) ==
    [req |-> "CompleteMultipartUpload", partNumber |-> 0, startPos |-> 0,
     endPos |-> 0, first |-> 0, ok |-> ok, parts |-> c.parts]

\* s3_file_system.cc:701-752: the loop over the parts, from part 0.
\* CompleteMultipartUpload is inside the loop, after each part.  After the
\* last part the function ends without a return statement: the caller reads
\* a status that was never written, fall_off.
RECURSIVE CopyParts(_, _, _, _, _, _)
PartCompleted(c, e, src, target_key, partNumber, numParts, ok) ==
    IF ~ok
    THEN [code |-> "UNKNOWN", store |-> c.store,
          log |-> Append(c.log, CompleteRequest(c, ok))]
    ELSE CopyParts([c EXCEPT !.store = Put(@, target_key, Object(Assemble(c.parts))),
                             !.log = Append(@, CompleteRequest(c, ok)),
                             !.open = FALSE],
                   e, src, target_key, partNumber + 1, numParts)
PartCopied(a, e, src, target_key, partNumber, numParts) ==
    IF a.code # "OK"
    THEN [code |-> a.code, store |-> a.copy.store, log |-> a.copy.log]
    ELSE PartCompleted(a.copy, e, src, target_key, partNumber, numParts,
                       CompleteMultipartUpload(e, a.copy.parts, a.copy.open))
CopyParts(c, e, src, target_key, partNumber, numParts) ==
    IF partNumber >= numParts
    THEN [code |-> e.fall_off, store |-> c.store, log |-> c.log]
    ELSE PartCopied(PartAttempts(c, e, src, partNumber, 3),
                    e, src, target_key, partNumber, numParts)

\* s3_file_system.cc:695-697: MultiPartCopy after Stat of the source gave stats
CopyStat(st, src, target_key, stats, e) ==
    IF stats.code # "OK" THEN [code |-> stats.code, store |-> st, log |-> <<>>]
    ELSE CopyParts(NewCopy(st), e, src, target_key, 0,
                   stats.length \div kS3MultiPartCopyPartSize)

\* S3FileSystem::MultiPartCopy, s3_file_system.cc:680-752
MultiPartCopy(st, src_bucket, src_key, target_key, e) ==
    IF e.create_fault THEN [code |-> "UNKNOWN", store |-> st, log |-> <<>>]
    ELSE CopyStat(st, Lookup(st, src_bucket, src_key), target_key,
                  StatParsed(st, [code |-> "OK", bucket |-> src_bucket,
                                  object |-> src_key], e.head_fault, FALSE),
                  e)

\* s3_file_system.cc:792-793: the first n characters of src_key replaced
TargetKey(src_key, n, target_object) ==
    target_object \o SubSeq(src_key, n + 1, Len(src_key))

\* s3_file_system.cc:760-768: the trailing slash of the target follows the source
TargetObject(src_object, target_object) ==
    IF src_object[Len(src_object)] = "/" THEN WithTrailingSlash(target_object)
    ELSE IF target_object[Len(target_object)] = "/"
    THEN SubSeq(target_object, 1, Len(target_object) - 1)
    ELSE target_object

\* s3_file_system.cc:781-815: the loop of RenameFile over the pages and
\* (790-813) over the keys of one page: copy, then delete the source.  f are
\* the requests that fail and the status MultiPartCopy leaves.
RECURSIVE RenameKeys(_, _, _, _, _, _, _)
RECURSIVE RenamePages(_, _, _, _, _, _)
RenameCopied(st, bucket, src_object, target_object, marker, f, page, i, copied) ==
    IF copied.code # "OK" THEN [code |-> "UNKNOWN", store |-> copied.store]
    ELSE IF f.delete_fault THEN [code |-> "UNKNOWN", store |-> copied.store]
    ELSE RenameKeys(DeleteObject(copied.store, page.contents[i]), bucket,
                    src_object, target_object, f, page, i + 1)
RenameKeys(st, bucket, src_object, target_object, f, page, i) ==
    IF i > Len(page.contents)
    THEN IF page.is_truncated
         THEN RenamePages(st, bucket, src_object, target_object,
                          page.next_marker, f)
         ELSE [code |-> "OK", store |-> st]
    ELSE RenameCopied(st, bucket, src_object, target_object, page.next_marker,
                      f, page, i,
                      MultiPartCopy(st, bucket, page.contents[i],
                                    TargetKey(page.contents[i], Len(src_object),
                                              target_object),
                                    f))
RenamePages(st, bucket, src_object, target_object, marker, f) ==
    IF f.list_fault THEN [code |-> "UNKNOWN", store |-> st]
    ELSE RenameKeys(st, bucket, src_object, target_object, f,
                    ListObjects(st, bucket, src_object, FALSE,
                                kS3GetChildrenMaxKeys, marker), 1)

\* s3_file_system.cc:757-817: RenameFile after the two ParseS3Path calls
RenameParsed(st, ps, pt, f) ==
    IF ps.code # "OK" THEN [code |-> ps.code, store |-> st]
    ELSE IF pt.code # "OK" THEN [code |-> pt.code, store |-> st]
    ELSE RenamePages(st, ps.bucket, ps.object,
                     TargetObject(ps.object, pt.object), <<>>, f)

\* S3FileSystem::RenameFile, s3_file_system.cc:754-818
RenameFile(st, src, target, f) ==
    RenameParsed(st, ParsedPaths[src][FALSE], ParsedPaths[target][FALSE], f)

\* What the last operation returned to the caller.
Ret(op, path, code) ==
    [op |-> op, path |-> path, code |-> code, data |-> <<>>, length |-> 0,
     is_directory |-> FALSE, uploads |-> 0, synced |-> FALSE,
     after_sync |-> FALSE, fault |-> FALSE, overrun |-> FALSE,
     \* directory operations: the second path of a rename, the entries of a
     \* listing, the requests sent to the store, which requests failed
     target |-> <<>>, children |-> <<>>, log |-> <<>>,
     head_fault |-> FALSE, list_fault |-> FALSE,
     \* reads: the arguments of Read
     offset |-> 0, n |-> 0,
     \* ParseS3Path: its flag and the strings it stores
     empty_object_ok |-> FALSE, bucket |-> <<>>, object |-> <<>>,
     \* Sync and Close: how the transfer went
     nfail |-> 0, final |-> "COMPLETED",
     \* retried directory calls: the attempts on which the listing lagged
     stale |-> 0]

InitRetryIdle ==
    /\ adapter = "s3"
    /\ initial_delay_microseconds = S3InitDelayMicroseconds
    /\ retriable_errors = S3RetriableErrors
    /\ env = [m \in Modes |-> NewEnvelope]
    /\ raw_log = [n |-> 0, nret |-> 0, last |-> NoStatus, first |-> "-",
                  prev |-> "-", nf_after_first |-> FALSE]

InitFile ==
    /\ InitRetryIdle
    /\ InitClientIdle
    /\ store = [k \in ObjectKeys |-> NoObject]
    /\ wf = NoFile
    /\ fresh = 1
    /\ ret = Ret("none", <<>>, "OK")

\* S3FileSystem::NewWritableFile, s3_file_system.cc:421-428
NewWritableFile(fname) ==
    /\ ~wf.outfile
    /\ \E p \in {ParsedPaths[fname][FALSE]} :
          /\ wf' = IF p.code = "OK"
                   THEN NewS3WritableFile(fname, p.bucket, p.object, "write")
                   ELSE wf
          /\ ret' = Ret("NewWritableFile", fname, p.code)
    /\ UNCHANGED <<store, fresh, retry_vars, client_vars>>

NewAppendableFile(fname, fault_at, disk_ok) ==
    /\ ~wf.outfile
    /\ \E a \in {AppendableFile(store, fname, fault_at, disk_ok)} :
          /\ wf' = IF a.code = "OK" THEN a.file ELSE wf
          /\ ret' = [Ret("NewAppendableFile", fname, a.code)
                        EXCEPT !.fault = fault_at # 0 \/ ~disk_ok,
                               !.n = fault_at]
    /\ UNCHANGED <<store, fresh, retry_vars, client_vars>>

\* The caller appends the next n bytes of its stream.
AppendBytes(n, disk_ok) ==
    /\ wf.handle
    /\ \E data \in {[i \in 1..n |-> fresh + i - 1]} :
       \E a \in {FileAppend(wf, data, disk_ok)} :
          /\ wf' = [a.file EXCEPT
                       !.accepted = IF a.code = "OK" THEN @ \o data ELSE @,
                       !.clean = @ /\ a.code = "OK",
                       !.last_sync_ok = FALSE]
          /\ fresh' = IF a.code = "OK" THEN fresh + n ELSE fresh
          /\ ret' = [Ret("Append", wf.path, a.code) EXCEPT
                        !.fault = ~disk_ok,
                        !.after_sync = wf.last_sync_ok]
    /\ UNCHANGED <<store, retry_vars, client_vars>>

\* Sync (Flush is Sync, s3_file_system.cc:277) and Close on the handle.
SyncLike(op, nfail, final, after_pos, after_good) ==
    /\ wf.handle
    /\ \E s \in {IF op = "Close"
                  THEN FileClose(wf, store, nfail, final, after_pos, after_good)
                  ELSE FileSync(wf, store, nfail, final, after_pos, after_good)} :
          /\ wf' = [s.file EXCEPT !.clean = @ /\ s.code = "OK",
                                  !.last_sync_ok = wf.outfile /\ s.code = "OK"]
          /\ store' = s.store
          /\ ret' = [Ret(op, wf.path, s.code) EXCEPT
                        !.uploads = s.uploads,
                        !.synced = wf.outfile,
                        !.after_sync = wf.last_sync_ok,
                        !.nfail = nfail, !.final = final]
    /\ UNCHANGED <<fresh, retry_vars, client_vars>>

Sync(nfail, final, after_pos, after_good) ==
    SyncLike("Sync", nfail, final, after_pos, after_good)
Close(nfail, final, after_pos, after_good) ==
    SyncLike("Close", nfail, final, after_pos, after_good)

\* The handle is destroyed; the TempFile goes with it.
Destroy ==
    /\ wf.handle
    /\ wf' = NoFile
    /\ ret' = Ret("Destroy", wf.path, "OK")
    /\ UNCHANGED <<store, fresh, retry_vars, client_vars>>

\* RetryingWritableFile::~RetryingWritableFile: the retrying Close, its
\* status ignored (kept in ret for the record), then the wrapped file and
\* its TempFile go.
DestroyRetrying(fails, after_pos, after_good) ==
    /\ wf.handle
    /\ \E c \in {CloseWithRetries(wf, store, 0, 0, fails, after_pos, after_good)} :
          /\ store' = c.store
          /\ ret' = [Ret("DestroyRetrying", wf.path, c.code) EXCEPT
                        !.uploads = c.uploads,
                        !.synced = wf.outfile,
                        !.n = c.calls]
    /\ wf' = NoFile
    /\ UNCHANGED <<fresh, retry_vars, client_vars>>

\* How the uploads of the retrying Close go: all succeed, the first call's
\* fail, or those of every call the envelope makes.
Drops(f) ==
    IF ~f.outfile
    THEN [fails : {0}, after_pos : {0}, after_good : {TRUE}]
    ELSE [fails : {0}, after_pos : {0}, after_good : {TRUE}]
         \cup [fails : {1, kMaxRetries + 1}, after_pos : {0, Len(f.content)},
               after_good : BOOLEAN]

StatFile(fname, head_fault, list_fault) ==
    /\ ~wf.outfile
    /\ \E s \in {Stat(store, fname, head_fault, list_fault)} :
          ret' = [Ret("Stat", fname, s.code) EXCEPT
                     !.length = s.length,
                     !.is_directory = s.is_directory,
                     !.head_fault = head_fault,
                     !.list_fault = list_fault]
    /\ UNCHANGED <<store, wf, fresh, retry_vars, client_vars>>

NewReadOnlyMemoryRegionFromFile(fname, read_fault) ==
    /\ ~wf.outfile
    /\ \E r \in {ReadOnlyMemoryRegion(store, fname, FALSE, FALSE, read_fault)} :
          ret' = [Ret("NewReadOnlyMemoryRegionFromFile", fname, r.code) EXCEPT
                     !.data = r.data,
                     !.length = r.length,
                     !.overrun = r.overrun,
                     !.fault = read_fault]
    /\ UNCHANGED <<store, wf, fresh, retry_vars, client_vars>>

\* How a transfer goes: the number of attempts that end FAILED (none, all the
\* retries allow, one more than that), the status of the attempt after them,
\* and where the transfer manager leaves the stream: rewound or read to the
\* end, good() or not.  A closed handle starts no transfer.
Transfers(f) ==
    IF ~f.outfile
    THEN [nfail : {0}, final : {"COMPLETED"}, after_pos : {0}, after_good : {TRUE}]
    ELSE [nfail : {0, kUploadRetries + 1}, final : {"COMPLETED"},
          after_pos : {0, Len(f.content)}, after_good : BOOLEAN]
         \cup [nfail : {kUploadRetries}, final : {"COMPLETED"},
               after_pos : {0}, after_good : {FALSE}]
         \cup [nfail : {0, 2}, final : {"CANCELED"},
               after_pos : {Len(f.content)}, after_good : {TRUE}]
         \cup [nfail : {2}, final : {"COMPLETED"},
               after_pos : {Len(f.content)}, after_good : {TRUE}]

\* How seeding an appendable file goes: no fault, the first or the second
\* chunk read fails, or the spill file refuses the write.
Seedings ==
    [fault_at : 0..2, disk_ok : {TRUE}] \cup [fault_at : {0}, disk_ok : {FALSE}]

NextFile ==
    \/ \E fname \in FilePaths : NewWritableFile(fname)
    \/ \E fname \in FilePaths, s \in Seedings :
          NewAppendableFile(fname, s.fault_at, s.disk_ok)
    \/ \E n \in 0..(MaxBytes + 1 - fresh), disk_ok \in BOOLEAN : AppendBytes(n, disk_ok)
    \/ \E t \in Transfers(wf) : Sync(t.nfail, t.final, t.after_pos, t.after_good)
    \/ \E t \in Transfers(wf) : Close(t.nfail, t.final, t.after_pos, t.after_good)
    \/ Destroy
    \/ \E d \in Drops(wf) : DestroyRetrying(d.fails, d.after_pos, d.after_good)
    \/ \E fname \in FilePaths : StatFile(fname, FALSE, FALSE)
    \/ \E fname \in FilePaths, read_fault \in BOOLEAN :
          NewReadOnlyMemoryRegionFromFile(fname, read_fault)

SpecFile == InitFile /\ [][NextFile]_vars

(***************************************************************************)
(* The directory operations as calls on a store that holds a small tree.   *)
(***************************************************************************)
\* The keys of the tree, in listing order, and the bytes of an object.
TreeKeys == << <<"a">>, <<"a", "/">>, <<"a", "/", "a">>, <<"a", "/", "b">>,
               <<"a", "/", "b", "/", "a">>, <<"a", "/", "h">> >>
MarkerKeys == {<<"a", "/">>, <<"a", "/", "b", "/">>, <<"h", "/">>}
DirKeys == {TreeKeys[i] : i \in 1..Len(TreeKeys)} \cup MarkerKeys
Body(n) == [i \in 1..n |-> 1]

\* The lengths of the objects of the tree: the marker a/ is a zero-byte
\* object, a and a/b are one part long, the others shorter than a part.
TreeLengths == <<kS3MultiPartCopyPartSize, 0, 1, kS3MultiPartCopyPartSize, 1, 1>>

\* The store that holds the first n keys of the tree.
TreeStore(n) ==
    [k \in DirKeys |->
        IF \E i \in 1..n : TreeKeys[i] = k
        THEN Object(Body(TreeLengths[CHOOSE i \in 1..n : TreeKeys[i] = k]))
        ELSE NoObject]

InitDir ==
    /\ InitRetryIdle
    /\ InitClientIdle
    /\ \E n \in 0..Len(TreeKeys) : store = TreeStore(n)
    /\ wf = NoFile
    /\ fresh = 1
    /\ ret = Ret("none", <<>>, "OK")

\* The keys whose objects went away between st and after, in order.
Deleted(st, after) ==
    SortKeys({k \in DOMAIN st : st[k].exists /\ ~Lookup(after, TheBucket, k).exists})

CallFileExists(fname, head_fault, list_fault) ==
    /\ ret' = [Ret("FileExists", fname,
                   FileExists(store, fname, head_fault, list_fault))
                  EXCEPT !.head_fault = head_fault, !.list_fault = list_fault]
    /\ UNCHANGED <<store, wf, fresh, retry_vars, client_vars>>

CallGetChildren(dir, fault_at) ==
    /\ \E r \in {GetChildren(store, dir, fault_at)} :
          ret' = [Ret("GetChildren", dir, r.code)
                     EXCEPT !.children = r.children, !.log = r.markers,
                            !.list_fault = fault_at # 0]
    /\ UNCHANGED <<store, wf, fresh, retry_vars, client_vars>>

CallDeleteFile(fname, delete_fault) ==
    /\ \E r \in {DeleteFile(store, fname, delete_fault)} :
          /\ store' = r.store
          /\ ret' = [Ret("DeleteFile", fname, r.code) EXCEPT !.fault = delete_fault]
    /\ UNCHANGED <<wf, fresh, retry_vars, client_vars>>

CallCreateDir(dirname, head_fault, list_fault, nfail, final) ==
    /\ \E r \in {CreateDir(store, dirname, head_fault, list_fault, nfail, final)} :
          /\ store' = r.store
          /\ ret' = [Ret("CreateDir", dirname, r.code)
                        EXCEPT !.uploads = r.uploads,
                               !.head_fault = head_fault,
                               !.list_fault = list_fault]
    /\ UNCHANGED <<wf, fresh, retry_vars, client_vars>>

CallDeleteDir(dirname, list_fault, delete_fault) ==
    /\ \E r \in {DeleteDir(store, dirname, list_fault, delete_fault)} :
          /\ store' = r.store
          /\ ret' = [Ret("DeleteDir", dirname, r.code)
                        EXCEPT !.list_fault = list_fault, !.fault = delete_fault,
                               !.log = Deleted(store, r.store)]
    /\ UNCHANGED <<wf, fresh, retry_vars, client_vars>>

CallRenameFile(src, target, f) ==
    /\ \E r \in {RenameFile(store, src, target, f)} :
          /\ store' = r.store
          /\ ret' = [Ret("RenameFile", src, r.code)
                        EXCEPT !.target = target,
                               !.fault = f.list_fault \/ f.create_fault
                                         \/ f.head_fault \/ f.delete_fault
                                         \/ f.part_faults # {}
                                         \/ f.complete_fault]
    /\ UNCHANGED <<wf, fresh, retry_vars, client_vars>>

\* The requests of a rename that fail (none or one kind), and the status read
\* after MultiPartCopy ends without returning one.  The endpoint is S3.
RenameFaults ==
    [list_fault : {FALSE}, create_fault : {FALSE}, head_fault : {FALSE},
     delete_fault : {FALSE}, strict : {TRUE}, part_faults : {{}},
     complete_fault : {FALSE}, fall_off : {"OK", "UNKNOWN"}]
    \cup [list_fault : {TRUE}, create_fault : {FALSE}, head_fault : {FALSE},
          delete_fault : {FALSE}, strict : {TRUE}, part_faults : {{}},
          complete_fault : {FALSE}, fall_off : {"OK"}]
    \cup [list_fault : {FALSE}, create_fault : {TRUE}, head_fault : {FALSE},
          delete_fault : {FALSE}, strict : {TRUE}, part_faults : {{}},
          complete_fault : {FALSE}, fall_off : {"OK"}]
    \cup [list_fault : {FALSE}, create_fault : {FALSE}, head_fault : {TRUE},
          delete_fault : {FALSE}, strict : {TRUE}, part_faults : {{}},
          complete_fault : {FALSE}, fall_off : {"OK"}]
    \cup [list_fault : {FALSE}, create_fault : {FALSE}, head_fault : {FALSE},
          delete_fault : {TRUE}, strict : {TRUE}, part_faults : {{}},
          complete_fault : {FALSE}, fall_off : {"OK"}]

\* The (source, target) pairs of the renames.
RenamePairs ==
    {<<P_a, P_h>>, <<P_a_slash, P_h>>, <<P_a_b, P_h_slash>>,
     <<P_http, P_h>>, <<P_a, P_bucket>>}

\* The requests of a stat that fail: none, HeadObject (HeadBucket for the
\* bucket), ListObjects, both.
StatFaults == [head_fault : BOOLEAN, list_fault : BOOLEAN]

NextDir ==
    \/ \E fname \in DirPaths, f \in StatFaults :
          StatFile(fname, f.head_fault, f.list_fault)
    \/ \E fname \in {P_a, P_a_b_slash, P_h, P_bucket, P_http},
          f \in {g \in StatFaults : g.head_fault = g.list_fault} :
          CallFileExists(fname, f.head_fault, f.list_fault)
    \/ \E dir \in DirPaths \ {P_a_b_slash, P_h_slash}, fault_at \in 0..2 :
          CallGetChildren(dir, fault_at)
    \/ \E fname \in {P_a_slash, P_a_b, P_http}, delete_fault \in BOOLEAN :
          CallDeleteFile(fname, delete_fault)
    \/ \E dirname \in DirPaths \ {P_a_b_slash, P_h_slash},
          f \in {g \in StatFaults : g.head_fault = g.list_fault},
          nfail \in {0, kUploadRetries + 1} :
          CallCreateDir(dirname, f.head_fault, f.list_fault, nfail, "COMPLETED")
    \/ \E dirname \in DirPaths \ {P_a_b_slash, P_h_slash, P_bucket},
          list_fault, delete_fault \in BOOLEAN :
          CallDeleteDir(dirname, list_fault, delete_fault)
    \/ \E pair \in RenamePairs, f \in RenameFaults :
          CallRenameFile(pair[1], pair[2], f)

SpecDir == InitDir /\ [][NextDir]_vars


(***************************************************************************)
(* The directory operations through RetryingS3FileSystem, on the same      *)
(* tree.                                                                   *)
(***************************************************************************)
\* DeleteDir through RetryingS3FileSystem, the listing lagging on the first
\* stale attempts.
CallDeleteDirRetrying(dirname, stale) ==
    /\ \E r \in {DeleteDirWithRetries(store, dirname, 0, FALSE, stale)} :
          /\ store' = r.store
          /\ ret' = [Ret("DeleteDirRetrying", dirname, r.code)
                        EXCEPT !.n = r.calls, !.stale = stale,
                               !.log = Deleted(store, r.store)]
    /\ UNCHANGED <<wf, fresh, retry_vars, client_vars>>

\* GetChildren through RetryingS3FileSystem into an empty vector; request
\* number at of each of the first count attempts fails.
CallGetChildrenRetrying(dir, at, count) ==
    /\ \E r \in {GetChildrenWithRetries(store, dir, <<>>, 0, at, count)} :
          ret' = [Ret("GetChildrenRetrying", dir, r.code)
                     EXCEPT !.children = r.children, !.n = r.calls,
                            !.nfail = count, !.offset = at]
    /\ UNCHANGED <<store, wf, fresh, retry_vars, client_vars>>

NextPoll ==
    \/ \E dir \in {P_a, P_a_slash, P_a_b, P_h, P_bucket, P_http},
          at \in 1..2, count \in {0, 1, 2, kMaxRetries + 1} :
          CallGetChildrenRetrying(dir, at, count)
    \/ \E dirname \in {P_a, P_a_slash, P_a_b, P_h, P_http},
          stale \in {0, 1, kMaxRetries, kMaxRetries + 1} :
          CallDeleteDirRetrying(dirname, stale)
    \/ \E fname \in DirPaths, delete_fault \in BOOLEAN :
          CallDeleteFile(fname, delete_fault)

SpecPoll == InitDir /\ [][NextPoll]_vars


(***************************************************************************)
(* RenameFile of a/b on a store that holds a sibling of the source, a/ba.  *)
(***************************************************************************)
\* a/b, a/b/a and the sibling a/ba; a/b/a is one byte long, the others one
\* byte or one part.
SiblingKey == <<"a", "/", "b", "a">>
FrameKeys == {<<"a", "/", "b">>, <<"a", "/", "b", "/", "a">>, SiblingKey}
FrameLength(k, long) ==
    IF k = <<"a", "/", "b", "/", "a">> \/ ~long THEN 1 ELSE kS3MultiPartCopyPartSize

InitFrame ==
    /\ InitRetryIdle
    /\ InitClientIdle
    /\ \E held \in SUBSET FrameKeys, long \in BOOLEAN :
          store = [k \in FrameKeys |->
                      IF k \in held
                      THEN Object([i \in 1..FrameLength(k, long) |-> i])
                      ELSE NoObject]
    /\ wf = NoFile
    /\ fresh = 1
    /\ ret = Ret("none", <<>>, "OK")

\* The endpoint, the status read after MultiPartCopy ends without returning
\* one, and whether DeleteObject fails.
FrameFaults ==
    [list_fault : {FALSE}, create_fault : {FALSE}, head_fault : {FALSE},
     delete_fault : BOOLEAN, strict : BOOLEAN, part_faults : {{}},
     complete_fault : {FALSE}, fall_off : {"OK", "UNKNOWN"}]

NextFrame ==
    \E src \in {P_a_b, P_a_b_slash}, target \in {P_h, P_h_slash}, f \in FrameFaults :
        CallRenameFile(src, target, f)

SpecFrame == InitFrame /\ [][NextFrame]_vars


(***************************************************************************)
(* Random-access reads of one object.                                      *)
(***************************************************************************)
\* The longest object read, in bytes.
MaxObjectBytes == 3

NoReader == [open |-> FALSE, path |-> <<>>, bucket |-> <<>>, object |-> <<>>]

\* The bucket holds one object, s3://b/a, of bytes 1, 2, ..
InitRead ==
    /\ InitRetryIdle
    /\ \E len \in 0..MaxObjectBytes :
          store = [k \in ObjectKeys |->
                      IF k = <<"a">> THEN Object([i \in 1..len |-> i]) ELSE NoObject]
    /\ wf = NoFile
    /\ fresh = 1
    /\ ret = Ret("none", <<>>, "OK")
    /\ reader = NoReader
    /\ fs = <<>>
    /\ threads = <<>>

\* S3FileSystem::NewRandomAccessFile, s3_file_system.cc:413-419
NewRandomAccessFile(fname) ==
    /\ \E p \in {ParsedPaths[fname][FALSE]} :
          /\ reader' = IF p.code = "OK"
                       THEN [open |-> TRUE, path |-> fname,
                             bucket |-> p.bucket, object |-> p.object]
                       ELSE reader
          /\ ret' = Ret("NewRandomAccessFile", fname, p.code)
    /\ UNCHANGED <<store, wf, fresh, fs, threads, retry_vars>>

\* S3RandomAccessFile::Read on the handle, s3_file_system.cc:203-228
ReadAt(offset, n, fault) ==
    /\ reader.open
    /\ \E r \in {Read(store, reader.bucket, reader.object, offset, n, fault)} :
          ret' = [Ret("Read", reader.path, r.code)
                     EXCEPT !.data = r.result, !.offset = offset, !.n = n,
                            !.fault = fault]
    /\ UNCHANGED <<store, wf, fresh, client_vars, retry_vars>>

NextRead ==
    \/ \E fname \in FilePaths : NewRandomAccessFile(fname)
    \/ \E offset \in 0..(MaxObjectBytes + 1), n \in 0..(MaxObjectBytes + 1),
          fault \in BOOLEAN : ReadAt(offset, n, fault)

SpecRead == InitRead /\ [][NextRead]_vars


(***************************************************************************)
(* ParseS3Path on its own, over every path made of a head and a tail.      *)
(***************************************************************************)
\* The longest tail, in characters.
MaxTailLen == 5

TailChars == {"b", ".", "/"}

RECURSIVE Tails(_)
Tails(n) ==
    IF n = 0 THEN {<<>>}
    ELSE Tails(n - 1) \cup {Append(t, c) : t \in Tails(n - 1), c \in TailChars}

\* "", s3://, h://, s3:/, s3b://, 3s://
Heads ==
    {<<>>, <<"s", "3", ":", "/", "/">>, <<"h", ":", "/", "/">>,
     <<"s", "3", ":", "/">>, <<"s", "3", "b", ":", "/", "/">>,
     <<"3", "s", ":", "/", "/">>}

ParseInputs == {h \o t : h \in Heads, t \in Tails(MaxTailLen)}

\* The caller holds a path; nothing has been parsed.
InitParse ==
    /\ InitRetryIdle
    /\ store = [k \in ObjectKeys |-> NoObject]
    /\ wf = NoFile
    /\ fresh = 1
    /\ \E fname \in ParseInputs : ret = Ret("none", fname, "OK")
    /\ reader = NoReader
    /\ fs = <<>>
    /\ threads = <<>>

\* ParseS3Path(fname, empty_object_ok, &bucket, &object), s3_file_system.cc:172-195
CallParseS3Path(empty_object_ok) ==
    /\ \E p \in {ParseS3Path(ret.path, empty_object_ok)} :
          ret' = [Ret("ParseS3Path", ret.path, p.code)
                     EXCEPT !.empty_object_ok = empty_object_ok,
                            !.bucket = p.bucket, !.object = p.object]
    /\ UNCHANGED <<store, wf, fresh, client_vars, retry_vars>>

NextParse == \E empty_object_ok \in BOOLEAN : CallParseS3Path(empty_object_ok)

SpecParse == InitParse /\ [][NextParse]_vars


(***************************************************************************)
(* The client provider: GetS3Client, GetTransferManager and GetExecutor of *)
(* one S3FileSystem, called from several threads.  An instance is named by *)
(* the order of its construction, 0 is the null pointer.  A mutex is 0     *)
(* when free, else the thread that holds it.                               *)
(***************************************************************************)
\* The threads, and the calls each of them makes.
NumThreads == 2
MaxCalls == 2

Threads == 1..NumThreads
Getters == {"GetS3Client", "GetTransferManager"}

\* S3FileSystem::S3FileSystem and the statics of GetDefaultClientConfig
NewFileSystem ==
    [s3_client_ |-> 0, transfer_manager_ |-> 0, executor_ |-> 0,
     initialization_lock_ |-> 0, cfg_lock |-> 0, init |-> FALSE,
     \* what has been constructed so far, and with what
     clients |-> 0, executors |-> 0, managers |-> 0, populated |-> 0,
     manager_client |-> 0, manager_executor |-> 0]

NewThread ==
    [pc |-> "idle", op |-> "none", s3_client |-> 0, result |-> 0, calls |-> 0]

InitClient ==
    /\ InitRetryIdle
    /\ store = [k \in ObjectKeys |-> NoObject]
    /\ wf = NoFile
    /\ fresh = 1
    /\ ret = Ret("none", <<>>, "OK")
    /\ reader = NoReader
    /\ fs = NewFileSystem
    /\ threads = [t \in Threads |-> NewThread]

Goto(t, pc) == threads' = [threads EXCEPT ![t].pc = pc]

client_idle == <<store, wf, fresh, ret, reader, retry_vars>>

\* A thread enters GetS3Client or GetTransferManager; the latter begins with
\* the call of GetS3Client at line 392.
CallGetter(t, op) ==
    /\ threads[t].pc = "idle"
    /\ threads[t].calls < MaxCalls
    /\ threads' = [threads EXCEPT ![t] = [@ EXCEPT !.pc = "client_lock", !.op = op,
                                                  !.s3_client = 0, !.result = 0]]
    /\ UNCHANGED <<fs, client_idle>>

\* GetS3Client without the lock_guard of line 359.
LockClient_NoLock(t) ==
    /\ threads[t].pc = "client_lock"
    /\ Goto(t, "client_check")
    /\ UNCHANGED <<fs, client_idle>>

\* GetS3Client, line 359: lock_guard on initialization_lock_
LockClient(t) ==
    /\ threads[t].pc = "client_lock"
    /\ fs.initialization_lock_ = 0
    /\ fs' = [fs EXCEPT !.initialization_lock_ = t]
    /\ Goto(t, "client_check")
    /\ UNCHANGED client_idle

\* GetS3Client, line 361: if (s3_client_.get() == nullptr)
CheckClient(t) ==
    /\ threads[t].pc = "client_check"
    /\ Goto(t, IF fs.s3_client_ = 0 THEN "cfg_lock" ELSE "client_return")
    /\ UNCHANGED <<fs, client_idle>>

\* GetDefaultClientConfig, line 64: lock_guard on cfg_lock
LockConfig(t) ==
    /\ threads[t].pc = "cfg_lock"
    /\ fs.cfg_lock = 0
    /\ fs' = [fs EXCEPT !.cfg_lock = t]
    /\ Goto(t, "cfg_init")
    /\ UNCHANGED client_idle

\* GetDefaultClientConfig, lines 66-148: populate once, return, unlock
PopulateConfig(t) ==
    /\ threads[t].pc = "cfg_init"
    /\ fs' = [fs EXCEPT !.init = TRUE,
                        !.populated = IF fs.init THEN @ ELSE @ + 1,
                        !.cfg_lock = 0]
    /\ Goto(t, "client_new")
    /\ UNCHANGED client_idle

\* GetS3Client, lines 382-384: new S3Client(GetDefaultClientConfig(), ..)
NewClient(t) ==
    /\ threads[t].pc = "client_new"
    /\ fs' = [fs EXCEPT !.clients = @ + 1, !.s3_client_ = fs.clients + 1]
    /\ Goto(t, "client_return")
    /\ UNCHANGED client_idle

\* GetS3Client, line 387: return s3_client_, the guard unlocks if this
\* thread holds the lock.  The caller is the user or GetTransferManager.
ReturnClient(t) ==
    /\ threads[t].pc = "client_return"
    /\ fs' = [fs EXCEPT !.initialization_lock_ = IF @ = t THEN 0 ELSE @]
    /\ threads' = [threads EXCEPT ![t] =
          IF @.op = "GetS3Client"
          THEN [@ EXCEPT !.pc = "idle", !.result = fs.s3_client_,
                         !.calls = @ + 1]
          ELSE [@ EXCEPT !.pc = "manager_lock", !.s3_client = fs.s3_client_]]
    /\ UNCHANGED client_idle

\* GetTransferManager, line 393: lock_guard on initialization_lock_
LockManager(t) ==
    /\ threads[t].pc = "manager_lock"
    /\ fs.initialization_lock_ = 0
    /\ fs' = [fs EXCEPT !.initialization_lock_ = t]
    /\ Goto(t, "manager_check")
    /\ UNCHANGED client_idle

\* GetExecutor, lines 403-411, as called at line 396
GetExecutor(f) ==
    IF f.executor_ = 0
    THEN [f EXCEPT !.executors = @ + 1, !.executor_ = f.executors + 1]
    ELSE f

\* TransferManager::Create(config) with config.s3Client = s3_client
CreateManager(f, s3_client) ==
    [f EXCEPT !.managers = @ + 1, !.transfer_manager_ = f.managers + 1,
              !.manager_client = s3_client, !.manager_executor = f.executor_]

\* GetTransferManager, lines 394-399
CheckManager(t) ==
    /\ threads[t].pc = "manager_check"
    /\ fs' = IF fs.transfer_manager_ = 0
             THEN CreateManager(GetExecutor(fs), threads[t].s3_client)
             ELSE fs
    /\ Goto(t, "manager_return")
    /\ UNCHANGED client_idle

\* GetTransferManager, line 400: return transfer_manager_, the guard unlocks
ReturnManager(t) ==
    /\ threads[t].pc = "manager_return"
    /\ fs' = [fs EXCEPT !.initialization_lock_ = 0]
    /\ threads' = [threads EXCEPT ![t] =
          [@ EXCEPT !.pc = "idle", !.result = fs.transfer_manager_,
                    !.calls = @ + 1]]
    /\ UNCHANGED client_idle

Step(t) ==
    \/ \E op \in Getters : CallGetter(t, op)
    \/ LockClient(t)
    \/ CheckClient(t)
    \/ LockConfig(t)
    \/ PopulateConfig(t)
    \/ NewClient(t)
    \/ ReturnClient(t)
    \/ LockManager(t)
    \/ CheckManager(t)
    \/ ReturnManager(t)

NextClient == \E t \in Threads : Step(t)

SpecClient == InitClient /\ [][NextClient]_vars

\* Every thread that can run does run.
SpecClientFair == SpecClient /\ \A t \in Threads : WF_vars(Step(t))


(***************************************************************************)
(* MultiPartCopy on its own: one source object, s3://b/a, copied to b/h.   *)
(***************************************************************************)
\* The longest source, in parts; one byte more is the longest source.
MaxCopyParts == 2

CopySource == <<"a">>
CopyTarget == <<"h">>

InitCopy ==
    /\ InitRetryIdle
    /\ \E length \in 0..(MaxCopyParts * kS3MultiPartCopyPartSize + 1) :
          store = [k \in {CopySource} |-> Object([i \in 1..length |-> i])]
    /\ wf = NoFile
    /\ fresh = 1
    /\ ret = Ret("none", <<>>, "OK")
    /\ reader = NoReader
    /\ fs = <<>>
    /\ threads = <<>>

\* MultiPartCopy(b/a, b, h), s3_file_system.cc:680-752, as RenameFile calls
\* it at line 797.
CallMultiPartCopy(e) ==
    /\ \E r \in {MultiPartCopy(store, TheBucket, CopySource, CopyTarget, e)} :
          /\ store' = r.store
          /\ ret' = [Ret("MultiPartCopy", CopySource, r.code)
                        EXCEPT !.target = CopyTarget, !.log = r.log,
                               !.length = Len(store[CopySource].body),
                               !.fault = e.create_fault \/ e.head_fault
                                         \/ e.part_faults # {} \/ e.complete_fault]
    /\ UNCHANGED <<wf, fresh, client_vars, retry_vars>>

NextCopy == \E e \in CopyFaults : CallMultiPartCopy(e)

SpecCopy == InitCopy /\ [][NextCopy]_vars


(***************************************************************************)
(* Claims about the retry envelope, checked under SpecRetry.               *)
(***************************************************************************)
RECURSIVE Pow2(_)
Pow2(k) == IF k = 0 THEN 1 ELSE 2 * Pow2(k - 1)

\* C1: CallWithRetries, on a script whose first k outcomes (0 <= k <= 10) are
\* retriable and whose outcome k+1 is not, invokes f exactly k+1 times and
\* returns outcome k+1 unchanged; while every outcome so far was retriable
\* (and the budget lasts) it has not returned.
C1_ReturnsFirstNonRetriable ==
    LET e == env["call"]
        k == raw_log.nret
    IN  /\ (/\ raw_log.n = k + 1
            /\ k <= 10
            /\ raw_log.last.code \notin retriable_errors)
           => (e.pc = "done" /\ e.calls = k + 1 /\ e.result = raw_log.last)
        /\ (raw_log.n = k /\ k <= 10) => (e.pc = "run" /\ e.calls = k)

C1_Witness ==
    /\ raw_log.nret = 10
    /\ raw_log.last.code = "INVALID_ARGUMENT"
    /\ env["call"].pc = "done"
    /\ env["call"].calls = 11
    /\ env["call"].result = raw_log.last

\* C2: on more than 10 consecutive retriable outcomes CallWithRetries invokes f
\* exactly 11 times, sleeps exactly 10 times, never invokes f a 12th time and
\* returns ABORTED with the status of the 11th attempt embedded; it returns its
\* own ABORTED in no other case.
C2_AbortedAfterMaxRetries ==
    LET e == env["call"]
    IN  /\ e.calls <= 11
        /\ raw_log.nret > 10
           => /\ e.pc = "done"
              /\ e.calls = 11
              /\ e.sleeps = 10
              /\ e.result = [code |-> "ABORTED", attempt |-> 11,
                             last |-> raw_log.last.code]
              /\ e.status = raw_log.last
        /\ (e.pc = "done" /\ e.result.last # "-") => raw_log.nret = 11

C2_Witness ==
    /\ adapter = "s3"
    /\ raw_log.nret = 11
    /\ raw_log.last.code = "INTERNAL"
    /\ env["call"].result.code = "ABORTED"
    /\ env["call"].result.last = "INTERNAL"
    /\ env["call"].sleeps = 10

\* C3: when delete_func returns NOT_FOUND on an attempt after the first,
\* DeleteWithRetries returns OK at once (UNAVAILABLE, UNAVAILABLE, NOT_FOUND:
\* OK after two retries, three invocations).
C3_NotFoundAfterRetryIsOK ==
    LET e == env["delete"]
    IN  (/\ e.calls = raw_log.n
         /\ raw_log.n >= 2
         /\ raw_log.last.code = "NOT_FOUND")
        => (e.pc = "done" /\ e.result = StatusOK /\ e.sleeps = e.calls - 1)

C3_Witness ==
    /\ raw_log.n = 3
    /\ raw_log.first = "UNAVAILABLE"
    /\ raw_log.prev = "UNAVAILABLE"
    /\ raw_log.last.code = "NOT_FOUND"
    /\ env["delete"].pc = "done"
    /\ env["delete"].result = StatusOK
    /\ env["delete"].calls = 3
    /\ env["delete"].sleeps = 2

\* C4: on every script in which NOT_FOUND does not occur after the first
\* attempt, DeleteWithRetries and CallWithRetries make the same invocations and
\* the same sleeps and return the same status; a NOT_FOUND on the first attempt
\* is returned as NOT_FOUND.
C4_DeleteEqualsCall ==
    LET c == env["call"]
        d == env["delete"]
    IN  ~raw_log.nf_after_first
        => /\ d.pc = c.pc
           /\ d.result = c.result
           /\ d.calls = c.calls
           /\ d.sleeps = c.sleeps
           /\ d.delay = c.delay
           /\ (raw_log.n = 1 /\ raw_log.first = "NOT_FOUND")
              => (d.pc = "done" /\ d.result.code = "NOT_FOUND")

C4_Witness ==
    /\ raw_log.n = 1
    /\ raw_log.first = "NOT_FOUND"
    /\ env["delete"].pc = "done"
    /\ env["delete"].result.code = "NOT_FOUND"
    /\ env["call"].result = env["delete"].result

\* C5: with initial_delay_microseconds > 0 the sleep before retry k (k = 0..9)
\* is min(initial << k, 32000000) plus a jitter in 0..999999: never above
\* 32999999, and its base never below the base of the retry before.
C5_BackoffWindow ==
    \A m \in Modes :
        LET e == env[m]
            k == e.sleeps - 1
            base == e.delay - e.random_micros
        IN  (e.sleeps >= 1 /\ initial_delay_microseconds > 0)
            => /\ k \in 0..9
               /\ base = Min(initial_delay_microseconds * Pow2(k), 32000000)
               /\ e.random_micros \in 0..999999
               /\ e.delay >= base
               /\ e.delay < base + 1000000
               /\ e.delay <= 32999999
               /\ base >= e.prev_base

C5_Witness ==
    /\ initial_delay_microseconds = 62500
    /\ env["call"].sleeps = 10
    /\ env["call"].delay = 32999999
    /\ env["call"].prev_base = 16000000

\* C6: through RetryingS3FileSystem an outcome of the underlying operation is
\* retried iff its code is UNAVAILABLE, DEADLINE_EXCEEDED, UNKNOWN,
\* FAILED_PRECONDITION or INTERNAL: INVALID_ARGUMENT (a path that does not
\* parse), NOT_FOUND, OUT_OF_RANGE and ABORTED come back after one invocation
\* and no sleep.
C6_S3RetriedIffInSet ==
    adapter = "s3"
    => \A m \in Modes :
         LET e == env[m]
             code == raw_log.last.code
             five == {"UNAVAILABLE", "DEADLINE_EXCEEDED", "UNKNOWN",
                      "FAILED_PRECONDITION", "INTERNAL"}
         IN  (e.calls = raw_log.n /\ raw_log.n >= 1)
             => /\ (code \in five /\ e.calls <= 10)
                   => (e.pc = "run" /\ e.sleeps = e.calls)
                /\ code \notin five => e.pc = "done"
                /\ (raw_log.n = 1 /\ code \in {"INVALID_ARGUMENT", "NOT_FOUND",
                                               "OUT_OF_RANGE", "ABORTED"})
                   => (e.calls = 1 /\ e.sleeps = 0 /\ e.result = raw_log.last)

C6_Witness ==
    /\ adapter = "s3"
    /\ raw_log.n = 1
    /\ raw_log.last.code = "INVALID_ARGUMENT"
    /\ env["call"].pc = "done"
    /\ env["call"].calls = 1
    /\ env["call"].sleeps = 0
    /\ env["call"].result.code = "INVALID_ARGUMENT"


(***************************************************************************)
(* Claims about the writable file and the read side, under SpecFile.       *)
(***************************************************************************)
\* The object at the handle's (bucket, key).
Uploaded == Lookup(store, wf.bucket, wf.object)
\* The last call was a read-region or a stat, with no server fault, of the
\* path of a handle of the given kind that is closed and on which every call
\* returned OK.
AfterRoundTrip(op, kind) ==
    /\ ret.op = op
    /\ ~ret.fault
    /\ wf.handle /\ ~wf.outfile /\ wf.clean
    /\ wf.kind = kind
    /\ ret.path = wf.path

\* C7: every Sync (alone or inside Close) on an open file that returns OK
\* leaves the object equal to the concatenation, in call order, of the bytes
\* Append accepted since construction (seeded bytes first for an appendable
\* file).
C7_SyncUploadsAcceptedBytes ==
    (ret.op \in {"Sync", "Close"} /\ ret.synced /\ ret.code = "OK")
        => Uploaded = Object(wf.accepted)

\* C8: after open-write(p), append(b), close all returned OK, read-region(p)
\* returns OK with contents b and stat(p).length = |b|, for every b, the
\* empty one included.
C8_WriteReadRoundTrip ==
    /\ AfterRoundTrip("NewReadOnlyMemoryRegionFromFile", "write")
          => /\ ret.code = "OK"
             /\ ret.data = wf.accepted
             /\ ret.length = Len(wf.accepted)
    /\ AfterRoundTrip("Stat", "write")
          => /\ ret.code = "OK"
             /\ ret.length = Len(wf.accepted)

\* C9: after open-write, append(x), close, open-append, append(y), close,
\* read-region returns OK with x followed by y, for all x and y, whatever
\* their lengths relative to the read chunk.
C9_AppendRoundTrip ==
    AfterRoundTrip("NewReadOnlyMemoryRegionFromFile", "append")
        => /\ ret.code = "OK"
           /\ IsPrefixOf(wf.seed, ret.data)
           /\ ret.data = wf.accepted

\* C10: sync_needed is true after every Append and false after every Sync
\* that returns OK, so a Sync directly after a Sync that returned OK, on a
\* file still open, uploads nothing and returns OK.
C10_SyncNeededFlag ==
    /\ (ret.op = "Append" /\ ret.code = "OK") => wf.sync_needed
    /\ (wf.outfile /\ wf.last_sync_ok) => ~wf.sync_needed
    /\ (ret.op = "Sync" /\ ret.after_sync) => (ret.uploads = 0 /\ ret.code = "OK")


\* What the program holds of the spill file and the handle (the other fields
\* of wf are ghosts).
FileState(f) ==
    [outfile |-> f.outfile, sync_needed |-> f.sync_needed,
     content |-> f.content, pos |-> f.pos, good |-> f.good]

\* C11: a Sync that returns OK leaves the write offset of the spill file where
\* it was at entry (and the stream good, the contents untouched); so, on a
\* handle on which every call returned OK, the write offset is always the end
\* of the bytes appended, an Append after a Sync writes directly after them,
\* and every Sync uploads the whole file, old bytes followed by new ones.
C11_SyncKeepsWriteOffset ==
    /\ [][(ret'.op = "Sync" /\ ret'.code = "OK" /\ wf.outfile)
             => /\ wf'.pos = wf.pos
                /\ wf'.good
                /\ wf'.content = wf.content]_vars
    /\ []((wf.outfile /\ wf.clean)
             => (wf.pos = Len(wf.accepted) /\ wf.content = wf.accepted))
    /\ []((ret.op = "Sync" /\ ret.synced /\ ret.code = "OK" /\ wf.clean)
             => Uploaded = Object(wf.content))

\* An Append of one byte directly after a Sync that returned OK and uploaded
\* the first byte: the file holds both bytes in order.
C11_Witness ==
    /\ ret.op = "Append" /\ ret.code = "OK" /\ ret.after_sync
    /\ wf.clean /\ wf.outfile
    /\ Len(wf.accepted) = 2
    /\ wf.content = wf.accepted /\ wf.pos = 2
    /\ Uploaded = Object(SubSeq(wf.accepted, 1, 1))

\* C12: a Sync, alone or inside Close, that returns an error on a file whose
\* stream was good leaves the handle open and the spill file's contents and
\* write offset as they were before the call.
C12_FailedSyncLeavesFileIntact ==
    [][(ret'.op \in {"Sync", "Close"} /\ ret'.code # "OK" /\ wf.outfile /\ wf.good)
          => /\ wf'.outfile
             /\ wf'.content = wf.content
             /\ wf'.pos = wf.pos]_vars

\* C13: Close on a closed handle returns OK, uploads nothing and changes
\* neither the handle nor the store; Close on an open file releases the spill
\* file exactly when its Sync returned OK, having uploaded the whole file, and
\* leaves the store alone when it did not.
C13_CloseIdempotent ==
    /\ [][(ret'.op = "Close" /\ wf.handle /\ ~wf.outfile)
             => /\ ret'.code = "OK"
                /\ ret'.uploads = 0
                /\ store' = store
                /\ FileState(wf') = FileState(wf)]_vars
    /\ [][(ret'.op = "Close" /\ wf.outfile)
             => /\ wf'.outfile <=> ret'.code # "OK"
                /\ ret'.code = "OK"
                      => store' = [store EXCEPT ![wf.object] = Object(wf.content)]
                /\ ret'.code # "OK" => store' = store]_vars

\* A second Close, directly after the Close that returned OK and released the
\* file.
C13_Witness ==
    /\ ret.op = "Close" /\ ret.code = "OK"
    /\ ~ret.synced /\ ret.after_sync
    /\ wf.handle /\ ~wf.outfile
    /\ Uploaded.exists

\* C14: Append on a handle that Close has released returns FailedPrecondition
\* and changes neither the handle, nor the bytes accepted, nor the store.
C14_AppendOnClosedFile ==
    [][(ret'.op = "Append" /\ wf.handle /\ ~wf.outfile)
          => /\ ret'.code = "FAILED_PRECONDITION"
             /\ store' = store
             /\ FileState(wf') = FileState(wf)
             /\ wf'.accepted = wf.accepted
             /\ fresh' = fresh]_vars

\* An Append refused on a handle whose Close uploaded a byte.
C14_Witness ==
    /\ ret.op = "Append" /\ ret.code = "FAILED_PRECONDITION"
    /\ wf.handle /\ ~wf.outfile
    /\ Uploaded.exists /\ Uploaded.body # <<>>


(***************************************************************************)
(* Claims about the directory operations, checked under SpecDir.           *)
(***************************************************************************)
\* Stat of the object key k of the bucket, without request failures.
StatKey(st, k) ==
    StatParsed(st, [code |-> "OK", bucket |-> TheBucket, object |-> k], FALSE, FALSE)

\* The source prefix and the target prefix of the rename ret reports.
RenameSource(r) == ParsedPaths[r.path][FALSE].object
RenameTarget(r) ==
    TargetObject(RenameSource(r), ParsedPaths[r.target][FALSE].object)

\* C15: rename round trip.  After RenameFile(src, tgt) returned OK, Stat of the
\* source path of every object that was under the source prefix is NotFound
\* and Stat of its target path is OK with the object's original length,
\* whatever that length is.
C15_RenameRoundTrip ==
    [][(ret'.op = "RenameFile" /\ ret'.code = "OK")
          => \A k \in ListedKeys(store, TheBucket, RenameSource(ret')) :
                /\ StatKey(store', k).code = "NOT_FOUND"
                /\ StatKey(store', TargetKey(k, Len(RenameSource(ret')),
                                            RenameTarget(ret'))).code = "OK"
                /\ StatKey(store', TargetKey(k, Len(RenameSource(ret')),
                                            RenameTarget(ret'))).length
                      = Len(store[k].body)]_vars

\* What the two requests of the Stat that ret reports showed: the object
\* HeadObject found at the key, the keys ListObjects returned for key + "/".
StatKeyOf(r) == ParsedPaths[r.path][TRUE].object
HeadShown(r) == ~r.head_fault /\ Lookup(store, TheBucket, StatKeyOf(r)).exists
ListShown(r) ==
    ~r.list_fault
       /\ ListedKeys(store, TheBucket, WithTrailingSlash(StatKeyOf(r))) # {}

\* C16: Stat of a non-empty key.  If an object is listed under key + "/" the
\* result is a directory of length 0, even when an object exists at the key
\* too; if only the object at the key is found the result is a file of that
\* object's length; if neither is found the result is NotFound.  Every
\* result that is a directory has length 0.
C16_StatDirectoryWins ==
    (ret.op = "Stat" /\ ParsedPaths[ret.path][TRUE].code = "OK")
       => /\ ret.is_directory => ret.length = 0
          /\ StatKeyOf(ret) # <<>> =>
                /\ ListShown(ret) =>
                      ret.code = "OK" /\ ret.is_directory /\ ret.length = 0
                /\ (~ListShown(ret) /\ HeadShown(ret)) =>
                      /\ ret.code = "OK" /\ ~ret.is_directory
                      /\ ret.length
                            = Len(Lookup(store, TheBucket, StatKeyOf(ret)).body)
                /\ (~ListShown(ret) /\ ~HeadShown(ret)) => ret.code = "NOT_FOUND"

\* Stat returned a directory for a key at which a non-empty object exists.
C16_Witness ==
    /\ ret.op = "Stat" /\ ret.code = "OK" /\ ret.is_directory /\ ret.length = 0
    /\ ~ret.head_fault /\ ~ret.list_fault
    /\ StatKeyOf(ret) = <<"a">>
    /\ Len(Lookup(store, TheBucket, <<"a">>).body) > 0
    /\ Lookup(store, TheBucket, <<"a", "/", "a">>).exists

\* The status of the Stat that the FileExists call ret reports has run.
ExistsStat(r) == Stat(store, r.path, r.head_fault, r.list_fault).code

\* C17 as stated: FileExists returns NotFound exactly when Stat returns
\* NotFound, and OK for every other outcome of Stat.
C17_ExistsOnlyNotFound ==
    ret.op = "FileExists"
       => /\ ret.code = "NOT_FOUND" <=> ExistsStat(ret) = "NOT_FOUND"
          /\ ExistsStat(ret) # "NOT_FOUND" => ret.code = "OK"

\* C17: FileExists returns the status of Stat unchanged: OK when Stat
\* succeeds, NotFound when Stat returns NotFound, InvalidArgument for a path
\* that does not parse, Unknown when HeadBucket fails.
C17_ExistsReturnsStatStatus ==
    ret.op = "FileExists"
       => /\ ret.code = ExistsStat(ret)
          /\ ParsedPaths[ret.path][TRUE].code # "OK"
                => ret.code = "INVALID_ARGUMENT"
          /\ (ParsedPaths[ret.path][TRUE].code = "OK"
                /\ StatKeyOf(ret) = <<>> /\ ret.head_fault)
                => ret.code = "UNKNOWN"
          /\ ret.code \in {"OK", "NOT_FOUND", "INVALID_ARGUMENT", "UNKNOWN"}

\* FileExists was called with a path of another scheme and returned the
\* error of Stat.
C17_Witness ==
    ret.op = "FileExists" /\ ret.path = P_http /\ ret.code = "INVALID_ARGUMENT"

\* The prefix that the GetChildren call ret reports has listed, and the keys
\* of the store under it.
ListedPrefix(r) == WithTrailingSlash(ParsedPaths[r.path][FALSE].object)
KeysUnder(r) == ListedKeys(store, TheBucket, ListedPrefix(r))

\* The part of key k after the listed prefix, and its first path segment.
Rest(k, r) == SubSeq(k, Len(ListedPrefix(r)) + 1, Len(k))
RECURSIVE FirstSegment(_)
FirstSegment(s) ==
    IF s = <<>> \/ s[1] = "/" THEN <<>> ELSE <<s[1]>> \o FirstSegment(Tail(s))

\* name is a subdirectory of the listed prefix (some key lies under
\* prefix + name + "/"); name is an object directly under the prefix.
IsSubdirectory(name, r) ==
    \E k \in KeysUnder(r) :
       FirstSegment(Rest(k, r)) = name /\ Len(Rest(k, r)) > Len(name)
IsObject(name, r) == \E k \in KeysUnder(r) : Rest(k, r) = name

Count(seq, e) == Cardinality({i \in 1..Len(seq) : seq[i] = e})
ChildNames(r) ==
    {FirstSegment(Rest(k, r)) : k \in KeysUnder(r)}
       \cup {r.children[i] : i \in 1..Len(r.children)}

\* The entries ListObjects has to deliver for the prefix (keys directly
\* under it, the marker included, and one common prefix per subdirectory),
\* and the number of pages they fill.
EntryCount(r) ==
    Cardinality({name \in ChildNames(r) : IsSubdirectory(name, r)})
       + Cardinality({k \in KeysUnder(r) :
                        \A i \in 1..Len(Rest(k, r)) : Rest(k, r)[i] # "/"})
PageCount(r) ==
    Max(1, (EntryCount(r) + kS3GetChildrenMaxKeys - 1) \div kS3GetChildrenMaxKeys)

\* C18: GetChildren that returned OK.  The result holds one entry for each
\* subdirectory (its common prefix without the listed prefix and the trailing
\* slash) and one for each object directly under the prefix (its key without
\* the listed prefix), each exactly once over any number of pages, and no
\* empty entry: the marker of the directory itself is left out.  One request
\* is sent per page; the first carries no marker, each later one the last
\* entry of the page before it, and the last page is the first that is not
\* truncated.
C18_GetChildrenEveryChildOnce ==
    (ret.op = "GetChildren" /\ ret.code = "OK")
       => /\ \A i \in 1..Len(ret.children) : ret.children[i] # <<>>
          /\ \A name \in ChildNames(ret) \ {<<>>} :
                Count(ret.children, name)
                   = (IF IsSubdirectory(name, ret) THEN 1 ELSE 0)
                     + (IF IsObject(name, ret) THEN 1 ELSE 0)
          /\ Len(ret.log) = PageCount(ret)
          /\ ret.log[1] = <<>>
          /\ \A j \in 2..Len(ret.log) :
                /\ LexLess(ret.log[j - 1], ret.log[j])
                /\ IsPrefixOf(ListedPrefix(ret), ret.log[j])
                /\ Cardinality({name \in ChildNames(ret) :
                       /\ IsSubdirectory(name, ret)
                       /\ ~LexLess(ret.log[j],
                                   ListedPrefix(ret) \o name \o <<"/">>)})
                     + Cardinality({k \in KeysUnder(ret) :
                          /\ \A i \in 1..Len(Rest(k, ret)) : Rest(k, ret)[i] # "/"
                          /\ ~LexLess(ret.log[j], k)})
                     = (j - 1) * kS3GetChildrenMaxKeys

\* GetChildren listed s3://b/a over more than one page: the marker a/ is
\* left out, the object a/b and the subdirectory a/b/ give one entry each.
C18_Witness ==
    /\ ret.op = "GetChildren" /\ ret.code = "OK" /\ ret.path = P_a
    /\ Len(ret.log) >= 2
    /\ Lookup(store, TheBucket, <<"a", "/">>).exists
    /\ Len(ret.children) = 4
    /\ Count(ret.children, <<"b">>) = 2
    /\ Count(ret.children, <<"a">>) = 1
    /\ Count(ret.children, <<"h">>) = 1

\* The marker key of the directory that the DeleteDir call r is about, and
\* the keys the store st holds under it.
DirMarker(r) == WithTrailingSlash(ParsedPaths[r.path][FALSE].object)
DirContents(st, r) == ListedKeys(st, TheBucket, DirMarker(r))

\* C19: one DeleteDir call.  If the listing of the prefix holds a key other
\* than the prefix itself the call returns Internal and deletes nothing; if
\* the marker is the only key listed the call deletes the marker and nothing
\* else (and returns Unknown, deleting nothing, when the DeleteObject request
\* fails); if the listing is empty it returns OK and deletes nothing.  No
\* DeleteDir call deletes an object other than the marker.
C19_DeleteDirOnlyEmpty ==
    /\ [][(/\ ret'.op = "DeleteDir"
            /\ ParsedPaths[ret'.path][FALSE].code = "OK"
            /\ ~ret'.list_fault)
          => /\ DirContents(store, ret') \ {DirMarker(ret')} # {}
                  => ret'.code = "INTERNAL" /\ store' = store
             /\ (DirContents(store, ret') = {DirMarker(ret')} /\ ~ret'.fault)
                  => /\ ret'.code = "OK"
                     /\ ~Lookup(store', TheBucket, DirMarker(ret')).exists
                     /\ \A k \in DOMAIN store \ {DirMarker(ret')} :
                           store'[k] = store[k]
             /\ (DirContents(store, ret') = {DirMarker(ret')} /\ ret'.fault)
                  => ret'.code = "UNKNOWN" /\ store' = store
             /\ DirContents(store, ret') = {}
                  => ret'.code = "OK" /\ store' = store]_vars
    /\ [][ret'.op = "DeleteDir"
            => /\ DOMAIN store' = DOMAIN store
               /\ \A k \in DOMAIN store :
                     store'[k] # store[k]
                        => /\ ParsedPaths[ret'.path][FALSE].code = "OK"
                           /\ k = DirMarker(ret')]_vars

\* DeleteDir(s3://b/a) deleted the marker a/, the only key under a/, and
\* left the object a in place.
C19_Witness ==
    /\ ret.op = "DeleteDir" /\ ret.code = "OK" /\ ret.path = P_a
    /\ ret.log = << <<"a", "/">> >>
    /\ ~Lookup(store, TheBucket, <<"a", "/">>).exists
    /\ Lookup(store, TheBucket, <<"a">>).exists

\* The key of the directory that the CreateDir call r is about, and the key
\* of its marker.
CreatedKey(r) == ParsedPaths[r.path][TRUE].object
CreatedMarker(r) == WithTrailingSlash(CreatedKey(r))

\* C20: CreateDir of a non-empty key whose FileExists got its answers from
\* the store.  If the directory exists (an object at key + "/" or under it)
\* the call returns OK without an upload and leaves the store as it is.
\* Otherwise it uploads the file it opened and closed without an Append: when
\* it returns OK the zero-byte object is at key + "/" and nothing else has
\* changed, when the upload fails the store is unchanged.  After OK, Stat of
\* the path is a directory of length 0 and the directory exists, so that a
\* second call writes nothing.
C20_CreateDirIdempotent ==
    [][(/\ ret'.op = "CreateDir"
        /\ ParsedPaths[ret'.path][TRUE].code = "OK"
        /\ CreatedKey(ret') # <<>>
        /\ ~ret'.head_fault /\ ~ret'.list_fault)
      => /\ StatKey(store, CreatedMarker(ret')).code = "OK"
              => ret'.code = "OK" /\ ret'.uploads = 0 /\ store' = store
         /\ (StatKey(store, CreatedMarker(ret')).code # "OK" /\ ret'.code = "OK")
              => /\ ret'.uploads >= 1
                 /\ store' = Put(store, CreatedMarker(ret'), Object(<<>>))
         /\ ret'.code # "OK" => store' = store
         /\ ret'.code = "OK"
              => /\ StatKey(store', CreatedMarker(ret')).code = "OK"
                 /\ StatKey(store', CreatedKey(ret'))
                       = [code |-> "OK", length |-> 0, is_directory |-> TRUE]]_vars

\* CreateDir(s3://b/h) found no directory h, uploaded the zero-byte object
\* h/ and returned OK.
C20_Witness ==
    /\ ret.op = "CreateDir" /\ ret.code = "OK" /\ ret.path = P_h
    /\ ~ret.head_fault /\ ~ret.list_fault
    /\ ret.uploads = 1
    /\ store[<<"h", "/">>] = Object(<<>>)
    /\ StatKey(store, <<"h">>).is_directory


(***************************************************************************)
(* Claims about random-access reads, checked under SpecRead.               *)
(***************************************************************************)
\* The object the reader is open on.
ReaderObject == Lookup(store, reader.bucket, reader.object)

\* C21: Read(offset, n) with n >= 1 on an object of length L.  For
\* offset < L it returns OK with the min(n, L - offset) bytes of the object
\* from offset; for offset >= L it returns OutOfRange with no bytes; when the
\* request fails otherwise it returns Unknown.  The result is determined by
\* the arguments and the object, whatever was read before, and the read
\* changes neither the object nor the reader.
C21_ReadRange ==
    [][(ret'.op = "Read" /\ ret'.n >= 1 /\ ReaderObject.exists)
          => /\ store' = store /\ reader' = reader
             /\ ret'.fault => ret'.code = "UNKNOWN"
             /\ (~ret'.fault /\ ret'.offset < Len(ReaderObject.body))
                  => /\ ret'.code = "OK"
                     /\ Len(ret'.data)
                           = Min(ret'.n, Len(ReaderObject.body) - ret'.offset)
                     /\ \A i \in 1..Len(ret'.data) :
                           ret'.data[i] = ReaderObject.body[ret'.offset + i]
             /\ (~ret'.fault /\ ret'.offset >= Len(ReaderObject.body))
                  => ret'.code = "OUT_OF_RANGE" /\ ret'.data = <<>>]_vars

\* A read that reaches past the end of the object returned the bytes up to
\* the end: offset 1, n = 3 on an object of 3 bytes gives bytes 2 and 3.
C21_Witness ==
    /\ ret.op = "Read" /\ ret.code = "OK" /\ reader.open
    /\ ret.offset = 1 /\ ret.n = 3
    /\ Len(ReaderObject.body) = 3
    /\ ret.data = <<2, 3>>


(***************************************************************************)
(* Further claims about the writable file, checked under SpecFile.         *)
(***************************************************************************)
\* The object that the NewAppendableFile call r reads, and whether one of
\* its chunk reads fails with an error other than OutOfRange: the object
\* does not exist, or the read that fails at the server (the r.n-th) is
\* among the reads the loop makes (one per chunk, and the one that finds the
\* end).
AppendedObject(r) ==
    Lookup(store, ParsedPaths[r.path][FALSE].bucket, ParsedPaths[r.path][FALSE].object)
ChunkReads(r) ==
    ((Len(AppendedObject(r).body) + kS3ReadAppendableFileBufferSize - 1)
        \div kS3ReadAppendableFileBufferSize) + 1
ChunkReadFails(r) ==
    ~AppendedObject(r).exists \/ r.n \in 1..ChunkReads(r)

\* C22: NewAppendableFile on a path that parses.  If a chunk read fails with
\* an error other than OutOfRange the call returns that error, the caller
\* gets no writer and the store is unchanged.  Otherwise the call returns OK
\* with an open writer whose spill file holds exactly the bytes of the
\* object, and the store is unchanged.
C22_OpenAppendSeedsObject ==
    [][(ret'.op = "NewAppendableFile" /\ ParsedPaths[ret'.path][FALSE].code = "OK")
          => /\ store' = store
             /\ ChunkReadFails(ret')
                  => ret'.code = "UNKNOWN" /\ wf' = wf
             /\ ~ChunkReadFails(ret')
                  => /\ ret'.code = "OK"
                     /\ wf'.outfile
                     /\ wf'.content = AppendedObject(ret').body]_vars

\* C23: no data loss on drop.  The destructor of a retrying writable file
\* that is still open runs the retrying Close; when that succeeds within
\* the retries (its status is OK) the object holds every byte Append
\* accepted.  The destructor of a file that was closed uploads nothing.
C23_NoDataLossOnDrop ==
    [][ret'.op = "DestroyRetrying"
          => /\ (wf.outfile /\ ret'.code = "OK")
                  => Lookup(store', wf.bucket, wf.object) = Object(wf.accepted)
             /\ ~wf.outfile => (ret'.uploads = 0 /\ store' = store)]_vars


\* The status the transfer shows after its i-th attempt during the Sync
\* that returned r on the file f.
AttemptStatus(f, r, i) ==
    IF ~f.good \/ i <= r.nfail THEN "FAILED" ELSE r.final

\* C26: upload retry inside one Sync.  A Sync that uploads makes between 1
\* and 6 attempts (the upload and at most 5 RetryUpload calls); every
\* attempt before the last ended FAILED; fewer than 6 attempts are made only
\* when the last one did not end FAILED; Sync returns OK when the last
\* status is COMPLETED and Unknown otherwise.
C26_UploadRetry ==
    [][(ret'.op = "Sync" /\ wf.outfile /\ wf.sync_needed)
          => /\ ret'.uploads \in 1..6
             /\ \A i \in 1..(ret'.uploads - 1) : AttemptStatus(wf, ret', i) = "FAILED"
             /\ ret'.uploads < 6 => AttemptStatus(wf, ret', ret'.uploads) # "FAILED"
             /\ ret'.code = IF AttemptStatus(wf, ret', ret'.uploads) = "COMPLETED"
                            THEN "OK" ELSE "UNKNOWN"]_vars

\* Five failed attempts, the sixth completes: Sync returns OK.
C26_Witness ==
    /\ ret.op = "Sync" /\ ret.synced
    /\ ret.nfail = 5 /\ ret.uploads = 6 /\ ret.code = "OK"


(***************************************************************************)
(* Claims about the path parser, checked under SpecParse.                  *)
(***************************************************************************)
S3Head == <<"s", "3", ":", "/", "/">>

\* What follows s3:// in a path that begins with it.
AfterHead(path) == SubSeq(path, Len(S3Head) + 1, Len(path))

\* The length of the bucket: the characters of r before its first '/'.
BucketLen(r) ==
    CHOOSE i \in 0..Len(r) :
        /\ \A j \in 1..i : r[j] # "/"
        /\ i = Len(r) \/ r[i + 1] = "/"

BucketPart(r) == SubSeq(r, 1, BucketLen(r))

\* The key: what follows the bucket, less the one '/' that separates them.
KeyPart(r) == SubSeq(r, BucketLen(r) + 2, Len(r))

Rejected(path, allow_empty_key) ==
    \/ ~IsPrefixOf(S3Head, path)
    \/ BucketPart(AfterHead(path)) \in {<<>>, <<".">>}
    \/ ~allow_empty_key /\ KeyPart(AfterHead(path)) = <<>>

\* C24: the path parser.  parse(path, allow_empty_key) returns
\* InvalidArgument exactly when the scheme is not s3, or the bucket is empty
\* or ".", or the key is empty after one leading '/' is stripped and
\* allow_empty_key is false; otherwise it returns OK with the bucket and the
\* key less exactly one leading '/'.  The result is a function of the two
\* arguments alone.
C24_ParseS3Path ==
    ret.op = "ParseS3Path"
      => /\ ret.code \in {"OK", "INVALID_ARGUMENT"}
         /\ ret.code = "INVALID_ARGUMENT" <=> Rejected(ret.path, ret.empty_object_ok)
         /\ ret.code = "OK"
              => /\ ret.bucket = BucketPart(AfterHead(ret.path))
                 /\ ret.object = KeyPart(AfterHead(ret.path))

\* s3://b//b parsed: bucket b, key /b.
C24_Witness ==
    /\ ret.op = "ParseS3Path"
    /\ ret.path = S3Head \o <<"b", "/", "/", "b">>
    /\ ret.code = "OK"
    /\ ret.bucket = <<"b">>
    /\ ret.object = <<"/", "b">>


(***************************************************************************)
(* Claims about the client provider, checked under SpecClientFair.         *)
(***************************************************************************)
Returned(t, op) ==
    threads[t].pc = "idle" /\ threads[t].calls > 0 /\ threads[t].op = op

OneOfEach ==
    /\ fs.clients <= 1 /\ fs.executors <= 1 /\ fs.managers <= 1
    /\ fs.populated <= 1
    /\ fs.managers = 1 => (fs.manager_client = 1 /\ fs.manager_executor = 1)

SameInstances ==
    \A t \in Threads :
        /\ Returned(t, "GetS3Client")
             => (threads[t].result = 1 /\ fs.s3_client_ = 1 /\ fs.populated = 1)
        /\ Returned(t, "GetTransferManager")
             => /\ threads[t].result = 1 /\ fs.transfer_manager_ = 1
                /\ threads[t].s3_client = 1 /\ fs.s3_client_ = 1
                /\ fs.executor_ = 1

\* No thread waits for a mutex it holds itself.
NoSelfWait ==
    \A t \in Threads :
        /\ threads[t].pc \in {"client_lock", "manager_lock"}
             => fs.initialization_lock_ # t
        /\ threads[t].pc = "cfg_lock" => fs.cfg_lock # t

\* C25: the client provider under concurrency.  However the calls of the
\* threads interleave, at most one client, one executor and one transfer
\* manager are constructed and the configuration is read from the
\* environment at most once; every call that has returned returned that one
\* instance; and every call returns (no thread is left waiting for the
\* initialisation mutex).
C25_OneClientProvider ==
    /\ [](OneOfEach /\ SameInstances /\ NoSelfWait)
    /\ \A t \in Threads : (threads[t].pc # "idle") ~> (threads[t].pc = "idle")

\* Thread 1 waits for the lock in GetTransferManager, holding the client
\* it obtained, while thread 2 is creating the transfer manager.
C25_Witness ==
    /\ threads[1].pc = "manager_lock" /\ threads[1].s3_client = 1
    /\ threads[2].pc = "manager_return" /\ fs.initialization_lock_ = 2
    /\ fs.managers = 1 /\ fs.clients = 1 /\ fs.executors = 1


(***************************************************************************)
(* Claims about rename and the multipart copy, checked under SpecDir and   *)
(* SpecCopy.                                                               *)
(***************************************************************************)
RenameParses(r) ==
    /\ r.op = "RenameFile"
    /\ ParsedPaths[r.path][FALSE].code = "OK"
    /\ ParsedPaths[r.target][FALSE].code = "OK"

\* C27: rename ordering and partial failure.  A rename returns OK or
\* Unknown.  Every source key it deleted is at its target key with the
\* bytes it had (the delete follows a copy that completed); every other
\* object, the source keys it did not reach among them, is as it was.
C27_RenameDeletesAfterCopy ==
    [][RenameParses(ret')
          => /\ ret'.code \in {"OK", "UNKNOWN"}
             /\ \A k \in DOMAIN store :
                   IF k \in ListedKeys(store, TheBucket, RenameSource(ret'))
                         /\ ~Lookup(store', TheBucket, k).exists
                   THEN Lookup(store', TheBucket,
                               TargetKey(k, Len(RenameSource(ret')),
                                         RenameTarget(ret'))) = store[k]
                   ELSE k \in ListedKeys(store, TheBucket, RenameSource(ret'))
                           => Lookup(store', TheBucket, k) = store[k]]_vars

\* The UploadPartCopy requests among the requests r reports, in order.
PartRequests(r) == SelectSeq(r.log, LAMBDA q : q.req = "UploadPartCopy")

\* The number of parts of a source of the given length.
PartCount(length) ==
    (length + kS3MultiPartCopyPartSize - 1) \div kS3MultiPartCopyPartSize

\* C28: multipart copy part layout.  A copy of a source of length L >= 1
\* none of whose requests fails for reasons of its own asks for the parts
\* 1..ceil(L / P) and no others, part i with the range (i-1)*P ..
\* min(i*P - 1, L - 1): contiguous, at most P bytes each, from 0 to L - 1.
C28_PartLayout ==
    (ret.op = "MultiPartCopy" /\ ret.length >= 1 /\ ~ret.fault)
       => /\ \A i \in 1..Len(PartRequests(ret)) :
                /\ PartRequests(ret)[i].partNumber \in 1..PartCount(ret.length)
                /\ PartRequests(ret)[i].first
                      = (PartRequests(ret)[i].partNumber - 1) * kS3MultiPartCopyPartSize
                /\ PartRequests(ret)[i].endPos
                      = Min(PartRequests(ret)[i].partNumber * kS3MultiPartCopyPartSize - 1,
                            ret.length - 1)
          /\ \A n \in 1..PartCount(ret.length) :
                \E i \in 1..Len(PartRequests(ret)) : PartRequests(ret)[i].partNumber = n

\* The CompleteMultipartUpload requests among the requests r reports.
CompleteRequests(r) == SelectSeq(r.log, LAMBDA q : q.req = "CompleteMultipartUpload")

\* The parts list names the parts 1..count once each, in order, each with
\* the ETag of an accepted UploadPartCopy of that part.
PartsListed(r, parts, count) ==
    /\ Len(parts) = count
    /\ \A i \in 1..Len(parts) :
          /\ parts[i].partNumber = i
          /\ parts[i].etag \in 1..Len(PartRequests(r))
          /\ PartRequests(r)[parts[i].etag].ok
          /\ PartRequests(r)[parts[i].etag].partNumber = i

\* C29: multipart copy completion.  A copy sends CompleteMultipartUpload at
\* most once, and exactly once when it returns OK; the parts list of the
\* request holds each part number 1..part_count exactly once, ascending,
\* with the ETag that part's successful UploadPartCopy returned.
C29_CompleteOnce ==
    (ret.op = "MultiPartCopy" /\ ret.length >= 1)
       => /\ Len(CompleteRequests(ret)) <= 1
          /\ ret.code = "OK" => Len(CompleteRequests(ret)) = 1
          /\ \A i \in 1..Len(CompleteRequests(ret)) :
                PartsListed(ret, CompleteRequests(ret)[i].parts, PartCount(ret.length))

\* The attempts of part n among the requests r reports.
AttemptsOf(r, n) == SelectSeq(PartRequests(r), LAMBDA q : q.partNumber = n)

\* C30: multipart copy per-part retry.  No part is attempted more than 3
\* times, or again after an attempt of it succeeded; when 3 attempts of a
\* part failed the copy returns a failure and sends no
\* CompleteMultipartUpload.
C30_PartRetry ==
    ret.op = "MultiPartCopy"
       => \A n \in 0..PartCount(ret.length) :
             /\ Len(AttemptsOf(ret, n)) <= 3
             /\ \A i \in 1..(Len(AttemptsOf(ret, n)) - 1) : ~AttemptsOf(ret, n)[i].ok
             /\ (Len(AttemptsOf(ret, n)) = 3
                   /\ \A i \in 1..3 : ~AttemptsOf(ret, n)[i].ok)
                  => (ret.code # "OK" /\ CompleteRequests(ret) = <<>>)


(***************************************************************************)
(* Claims about the directory operations behind the retry envelope,        *)
(* checked under SpecPoll.                                                 *)
(***************************************************************************)
\* The marker key of the directory r names, and the keys under it that the
\* store st holds beside the marker.
PolledMarker(r) == WithTrailingSlash(ParsedPaths[r.path][FALSE].object)
OtherKeys(st, r) == ListedKeys(st, TheBucket, PolledMarker(r)) \ {PolledMarker(r)}

\* C31: delete-dir through the retry envelope polls until the listing
\* drains.  When the listing shows keys other than the marker on the first
\* k attempts, k <= 10, and then only the marker or nothing, the call
\* returns OK after k + 1 attempts, the marker deleted if there was one;
\* when it shows other keys on all 11 attempts the call returns Aborted
\* after 11 attempts and nothing has been deleted.
C31_DeleteDirPolls ==
    [][(ret'.op = "DeleteDirRetrying" /\ ParsedPaths[ret'.path][FALSE].code = "OK")
          => /\ (OtherKeys(store, ret') = {} /\ ret'.stale <= 10)
                  => /\ ret'.code = "OK"
                     /\ ret'.n = ret'.stale + 1
                     /\ store' = DeleteObject(store, PolledMarker(ret'))
             /\ (OtherKeys(store, ret') # {} \/ ret'.stale > 10)
                  => /\ ret'.code = "ABORTED"
                     /\ ret'.n = 11
                     /\ store' = store]_vars

\* The listing lagged on 10 attempts; the 11th saw the marker alone and
\* deleted it.
C31_Witness ==
    /\ ret.op = "DeleteDirRetrying"
    /\ ret.stale = 10 /\ ret.n = 11 /\ ret.code = "OK"
    /\ ret.log = << <<"a", "/">> >>


(***************************************************************************)
(* Claims about what a rename touches, checked under SpecFrame.            *)
(***************************************************************************)
\* The key is the source key of the rename r reports or lies under it.
UnderSource(r, k) ==
    k = RenameSource(r) \/ IsPrefixOf(WithTrailingSlash(RenameSource(r)), k)

\* The key is the target key of a key under the source.
TargetOfSource(r, k) ==
    \E j \in DOMAIN store :
        /\ UnderSource(r, j)
        /\ k = TargetKey(j, Len(RenameSource(r)), RenameTarget(r))

\* C32: rename frame condition.  A rename copies and deletes only objects
\* whose key is the source key or lies under the source key followed by
\* '/': every other object is as it was, a sibling whose key begins with
\* the characters of the source key among them, and no object appears at
\* a key that is not the target of a source key.
C32_RenameFrame ==
    [][RenameParses(ret')
          => \A k \in DOMAIN store \cup DOMAIN store' :
                (~UnderSource(ret', k) /\ ~TargetOfSource(ret', k))
                   => Lookup(store', TheBucket, k) = Lookup(store, TheBucket, k)]_vars

\* C33: no data loss during rename.  Whatever a rename returns, each object
\* that was listed under the source prefix has its complete content at its
\* source key or at its target key: no source key is gone while its target
\* holds less than that content.
C33_RenameKeepsContent ==
    [][RenameParses(ret')
          => \A k \in ListedKeys(store, TheBucket, RenameSource(ret')) :
                \/ Lookup(store', TheBucket, k) = store[k]
                \/ Lookup(store', TheBucket,
                          TargetKey(k, Len(RenameSource(ret')), RenameTarget(ret')))
                      = store[k]]_vars

\* C34: GetChildren through the retry envelope.  When an attempt failed with
\* a retriable error after a page had been added to the result and a later
\* attempt succeeded, the vector the caller receives is the one a single
\* successful listing gives: each child once, nothing left over from the
\* failed attempts.
C34_ListRetriedOnce ==
    (ret.op = "GetChildrenRetrying" /\ ret.code = "OK" /\ ret.n >= 2)
       => ret.children = GetChildren(store, ret.path, 0).children

\* C35: Stat and request failures.  For a non-empty key Stat returns NotFound
\* only when the store holds neither an object at the key nor an object under
\* key + "/": a HeadObject or ListObjects request that fails for another
\* reason does not make an existing object look absent.
C35_StatNotFoundIsAbsent ==
    (/\ ret.op = "Stat"
     /\ ret.code = "NOT_FOUND"
     /\ ParsedPaths[ret.path][TRUE].code = "OK"
     /\ StatKeyOf(ret) # <<>>)
       => /\ ~Lookup(store, TheBucket, StatKeyOf(ret)).exists
          /\ ListedKeys(store, TheBucket, WithTrailingSlash(StatKeyOf(ret))) = {}

====
